---- MODULE Spec2Model ----
(***************************************************************************)
(* Time synchronisation and drift guard of the openeliot node firmware     *)
(* (src/src/rtc.cpp) together with the callers of it in src/src/main.cpp   *)
(* (setup, wakeup_self_test, loop).                                        *)
(*                                                                         *)
(* uint32_t values are held as their 32-bit two's-complement bit pattern:  *)
(* a value v < 2^31 is the integer v, a value v >= 2^31 is the integer     *)
(* v - 2^32.  Addition and subtraction modulo 2^32 are then the integer    *)
(* operations (TLC's integers are 32 bits wide and TLC stops with an       *)
(* overflow error, never a wrong value, if a result left the range), an    *)
(* unsigned comparison is ULt, and a conversion between int and uint32_t   *)
(* is the identity.                                                        *)
(***************************************************************************)
EXTENDS Integers, Sequences, FiniteSets, TLC

(***************************************************************************)
(* Program constants.  const.h and rtc.h are not among the sources; the    *)
(* values below stand for them.                                            *)
(***************************************************************************)
FAIL_CHECK_TIMESTAMP_START == 1600000000

FAIL_CHECK_TIMESTAMP_END == 1600001000

GSM_TRIES == 3

GSM_RETRY_DELAY_MS == 1000

\* rtc.h: RetResult sync(bool enable_safety = true)
SYNC_DEFAULT_SAFETY == TRUE

\* const.h: offset of the external RTC's time base (2000-01-01) from the epoch
SECONDS_IN_2000 == 946684800

\* RtcDateTime::Epoch32Time() of the Rtc library adds this to the chip's count
c_Epoch32OfOriginYear == 946684800

(***************************************************************************)
(* Bounds of the model.                                                    *)
(***************************************************************************)
\* No step starts once the tick counter has passed this many milliseconds.
MaxTick == 230000

\* The tick counter (ms) when setup() reaches RTC::init().
BootTick == 500

\* Wall-clock time (epoch seconds) at power-on, as an offset above
\* FAIL_CHECK_TIMESTAMP_START.
BootOffset == 300

RealBoot == FAIL_CHECK_TIMESTAMP_START + BootOffset

\* What may happen during a sleep: its duration d (ms) and the seconds the
\* external RTC gains or loses on the tick counter meanwhile.
SleepCases ==
    {[d |-> 199000, drift |-> 0], [d |-> 199000, drift |-> 15],
     [d |-> 201000, drift |-> 15], [d |-> 220000, drift |-> 15],
     [d |-> 201000, drift |-> -15]}

\* Durations of the HTTP request (ms).
HttpLatencies == {0, 2500}

(***************************************************************************)
(* uint32_t arithmetic on the two's-complement representation.             *)
(***************************************************************************)
\* a < b for uint32_t a, b
ULt(a, b) == IF (a >= 0) = (b >= 0) THEN a < b ELSE a >= 0

\* a / 1000 for uint32_t a: 2^32 = 4294967 * 1000 + 296
UDiv1000(a) == IF a >= 0 THEN a \div 1000 ELSE 4294967 + ((a + 296) \div 1000)

\* (int) ceil(n * 0.05) for an unsigned n below 2^23 (0.05 is the double
\* nearest to 1/20, n * 0.05 is exactly n/20 for a multiple of 20)
CeilPct5(n) == (n + 19) \div 20

\* (int) (n * 0.05): the conversion to int truncates
TruncPct5(n) == n \div 20

Abs(x) == IF x < 0 THEN -x ELSE x

Last(s) == s[Len(s)]

(***************************************************************************)
(* State.                                                                  *)
(***************************************************************************)
VARIABLES
    pc,                        \* position in setup / loop / sync
    clock,                     \* millis: tick counter (ms); sys, sub: system
                               \* clock (s, ms); ext: external RTC chip count
                               \* (s since 2000)
    ext_valid,                 \* chip's oscillator-valid flag
    ext_running,               \* chip's running flag
    ext_starts,                \* number of SetIsRunning(true) calls so far
    FLAGS,                     \* EXTERNAL_RTC_ENABLED, DEBUG_MODE
    last_sync_tick,            \* RTC::_last_sync_tick
    last_drift_check_tstamp,   \* RTC::_last_drift_check_tstamp
    last_drift_check_tick,     \* RTC::_last_drift_check_tick
    timechange_safety_enabled, \* RTC::_timechange_safety_enabled
    sync_loc,                  \* locals of the running (or last) sync call
    self_test,                 \* locals of wakeup_self_test and loop
    gsm_on,                    \* GSM::on() of the operation returned RET_OK
    gates,                     \* history: check_timechange_safe calls of the last step
    events,                    \* history: Log::log events of the last step
    calls,                     \* history: collaborator calls of the last step
    attempts,                  \* history: time-source functions sync invoked
    writes,                    \* history: writes of the system clock in the operation
    DeviceConfig,              \* stored configuration: last_rc_data_id and the
                               \* wake-up intervals (minutes) per reason
    reboot_pending,            \* RemoteControl::_reboot_pending
    rc_loc,                    \* locals and result of the last RemoteControl::start
    rc_applied                 \* history: data ids whose data was handled, in order

vars == <<pc, clock, ext_valid, ext_running, ext_starts, FLAGS, last_sync_tick,
          last_drift_check_tstamp, last_drift_check_tick,
          timechange_safety_enabled, sync_loc, self_test, gsm_on, gates,
          events, calls, attempts, writes, DeviceConfig, reboot_pending,
          rc_loc, rc_applied>>

rtc_vars == <<last_sync_tick, last_drift_check_tstamp, last_drift_check_tick,
              timechange_safety_enabled>>

chip_vars == <<ext_valid, ext_running, ext_starts>>

hist_vars == <<gates, events, calls, attempts, writes>>

remote_vars == <<DeviceConfig, reboot_pending, rc_loc, rc_applied>>

\* the histories of an operation that begins
NewOperation ==
    /\ gates' = <<>> /\ events' = <<>> /\ calls' = <<>>
    /\ attempts' = <<>> /\ writes' = <<>>

\* the histories after a step that gates no time, logs nothing and calls no
\* collaborator
QuietStep ==
    /\ gates' = <<>> /\ events' = <<>> /\ calls' = <<>>
    /\ UNCHANGED <<attempts, writes>>

(***************************************************************************)
(* Remote control: the stored configuration and RemoteControl's state.     *)
(***************************************************************************)
\* a key that the received JSON does not hold
Absent == -1

\* limits of the wake-up intervals (minutes) that remote control may set
MEASURE_WATER_SENSORS_INT_MINS_MIN == 1
MEASURE_WATER_SENSORS_INT_MINS_MAX == 3
CALL_HOME_INT_MINS_MIN == 1
CALL_HOME_INT_MINS_MAX == 3

\* the wake-up intervals of a device that was never remotely configured
DefaultIntervals == [REASON_READ_WATER_SENSORS |-> 1, REASON_CALL_HOME |-> 1]

\* no call of RemoteControl::start has been made
NoStart == [ret |-> "none", new_data_id |-> Absent, stored_id |-> Absent]

\* bool _reboot_pending = false; no remote control data received so far
RemoteIdle ==
    /\ DeviceConfig = [last_rc_data_id |-> 0,
                       wakeup_schedule_reason_int |-> DefaultIntervals]
    /\ reboot_pending = FALSE
    /\ rc_loc = NoStart
    /\ rc_applied = <<>>

(***************************************************************************)
(* Clocks.                                                                 *)
(***************************************************************************)
\* d milliseconds pass: the tick counter, the system clock and the external
\* RTC (which counts the whole seconds of the tick counter) advance.
Pass(c, d) ==
    [millis |-> c.millis + d,
     sys    |-> c.sys + ((c.sub + d) \div 1000),
     sub    |-> (c.sub + d) % 1000,
     ext    |-> c.ext + (((c.millis + d) \div 1000) - (c.millis \div 1000))]

\* True wall-clock time (epoch seconds) when the tick counter reads m.
RealTime(m) == RealBoot + ((m - BootTick) \div 1000)

\* time(NULL)
get_timestamp(c) == c.sys

\* A read that returns the chip's count of seconds since 2000 as it is.
get_external_rtc_timestamp_since_2000(c) == c.ext

\* _ext_rtc.GetDateTime().Epoch32Time()
get_external_rtc_timestamp(c) == c.ext + c_Epoch32OfOriginYear

\* settimeofday with tv_sec = t, tv_usec = 0
settimeofday(c, t) == [c EXCEPT !.sys = t, !.sub = 0]

(***************************************************************************)
(* Safety gate.                                                            *)
(***************************************************************************)
\* A window that includes its two bounds.
tstamp_valid_inclusive(tstamp) ==
    ~ULt(tstamp, FAIL_CHECK_TIMESTAMP_START) /\ ~ULt(FAIL_CHECK_TIMESTAMP_END, tstamp)

\* rtc.cpp:550-553
tstamp_valid(tstamp) ==
    ULt(FAIL_CHECK_TIMESTAMP_START, tstamp) /\ ULt(tstamp, FAIL_CHECK_TIMESTAMP_END)

\* Seconds counted from the drift checkpoint, which only init and a
\* successful sync move.
gate_elapsed_since_checkpoint(c) == UDiv1000(c.millis - last_drift_check_tick)

\* (millis() - _last_sync_tick) / 1000
gate_elapsed_sec(c) == UDiv1000(c.millis - last_sync_tick)

\* A tolerance whose floor is applied below 5 instead of below 10.
timechange_tol_low_floor(c) ==
    LET tol == TruncPct5(gate_elapsed_sec(c))
    IN  IF tol < 5 THEN 5 ELSE tol

\* int tol = ceil((millis() - _last_sync_tick) / 1000) * 0.05;
\* tol = tol < 10 ? 10 : tol;
\* the division is between integers, ceil is applied to its integer result
timechange_tol(c) ==
    LET tol == TruncPct5(gate_elapsed_sec(c))
    IN  IF tol < 10 THEN 10 ELSE tol

\* A gate that checks the lower end of the band only.
check_timechange_safe_lower_only(tstamp, c) ==
    IF ~tstamp_valid(tstamp) THEN [ok |-> FALSE, unsafe |-> FALSE]
    ELSE IF ~timechange_safety_enabled THEN [ok |-> TRUE, unsafe |-> FALSE]
    ELSE IF ~FLAGS.EXTERNAL_RTC_ENABLED THEN [ok |-> TRUE, unsafe |-> FALSE]
    ELSE IF ULt(tstamp, get_timestamp(c) - timechange_tol(c))
         THEN [ok |-> FALSE, unsafe |-> TRUE]
         ELSE [ok |-> TRUE, unsafe |-> FALSE]

\* A gate that skips the plausibility window when safety is disabled.
check_timechange_safe_forced(tstamp, c) ==
    IF ~timechange_safety_enabled THEN [ok |-> TRUE, unsafe |-> FALSE]
    ELSE IF ~tstamp_valid(tstamp) THEN [ok |-> FALSE, unsafe |-> FALSE]
    ELSE IF ~FLAGS.EXTERNAL_RTC_ENABLED THEN [ok |-> TRUE, unsafe |-> FALSE]
    ELSE IF ULt(tstamp, get_timestamp(c) - timechange_tol(c))
            \/ ULt(get_timestamp(c) + timechange_tol(c), tstamp)
         THEN [ok |-> FALSE, unsafe |-> TRUE]
         ELSE [ok |-> TRUE, unsafe |-> FALSE]

\* A gate that applies the band whatever the safety flag is.
check_timechange_safe_always_band(tstamp, c) ==
    IF ~tstamp_valid(tstamp) THEN [ok |-> FALSE, unsafe |-> FALSE]
    ELSE IF ~FLAGS.EXTERNAL_RTC_ENABLED THEN [ok |-> TRUE, unsafe |-> FALSE]
    ELSE IF ULt(tstamp, get_timestamp(c) - timechange_tol(c))
            \/ ULt(get_timestamp(c) + timechange_tol(c), tstamp)
         THEN [ok |-> FALSE, unsafe |-> TRUE]
         ELSE [ok |-> TRUE, unsafe |-> FALSE]

\* A gate that applies the band whatever the external RTC flag is.
check_timechange_safe_no_flag(tstamp, c) ==
    IF ~tstamp_valid(tstamp) THEN [ok |-> FALSE, unsafe |-> FALSE]
    ELSE IF ~timechange_safety_enabled THEN [ok |-> TRUE, unsafe |-> FALSE]
    ELSE IF ULt(tstamp, get_timestamp(c) - timechange_tol(c))
            \/ ULt(get_timestamp(c) + timechange_tol(c), tstamp)
         THEN [ok |-> FALSE, unsafe |-> TRUE]
         ELSE [ok |-> TRUE, unsafe |-> FALSE]

\* rtc.cpp:615-645: the result of check_timechange_safe(tstamp) at clock c,
\* and whether it logged RTC_DETECTED_UNSAFE_TIMECHANGE
check_timechange_safe(tstamp, c) ==
    IF ~tstamp_valid(tstamp) THEN [ok |-> FALSE, unsafe |-> FALSE]
    ELSE IF ~timechange_safety_enabled THEN [ok |-> TRUE, unsafe |-> FALSE]
    ELSE IF ~FLAGS.EXTERNAL_RTC_ENABLED THEN [ok |-> TRUE, unsafe |-> FALSE]
    ELSE LET cur_tstamp == get_timestamp(c)
             tol == timechange_tol(c)
         IN  IF ULt(tstamp, cur_tstamp - tol) \/ ULt(cur_tstamp + tol, tstamp)
             THEN [ok |-> FALSE, unsafe |-> TRUE]
             ELSE [ok |-> TRUE, unsafe |-> FALSE]

\* history entry of one gate call by time-source function fn
GateEntry(fn, tstamp, c) ==
    LET r == check_timechange_safe(tstamp, c)
    IN  [fn |-> fn, tstamp |-> tstamp, cur |-> get_timestamp(c),
         elapsed |-> gate_elapsed_sec(c), tol |-> timechange_tol(c),
         safety |-> timechange_safety_enabled,
         ext_en |-> FLAGS.EXTERNAL_RTC_ENABLED,
         valid |-> tstamp_valid(tstamp), ok |-> r.ok, unsafe |-> r.unsafe]

GateLog(tstamp, c) ==
    IF check_timechange_safe(tstamp, c).unsafe
    THEN <<[code |-> "RTC_DETECTED_UNSAFE_TIMECHANGE", args |-> <<tstamp>>]>>
    ELSE <<>>

(***************************************************************************)
(* Time sources.  Each operator gives the outcome of one call of the       *)
(* function at clock c: its result, the clock when it returns, and what it *)
(* adds to the histories.                                                  *)
(***************************************************************************)
Outcome(ok, c, g, l, w, k) ==
    [ok |-> ok, clock |-> c, gates |-> g, log |-> l, writes |-> w, calls |-> k]

\* history entry of a write of the system clock by fn at clock c: the value
\* written, the system clock it replaces and the tolerance at that moment
WriteEntry(fn, t, c) ==
    [fn |-> fn, val |-> t, before |-> get_timestamp(c), tol |-> timechange_tol(c),
     safety |-> timechange_safety_enabled, ext_en |-> FLAGS.EXTERNAL_RTC_ENABLED]

\* set_system_time(timestamp): TRUE iff it returns RET_OK; settimeofday does
\* not fail for a time it is given
set_system_time_ok(timestamp) == timestamp # -1

\* An external RTC source that sets the system clock before it asks the gate.
sync_time_from_ext_rtc_commit_first(c) ==
    IF ~FLAGS.EXTERNAL_RTC_ENABLED
    THEN Outcome(FALSE, c, <<>>, <<>>, <<>>, <<>>)
    ELSE LET ext_rtc_tstamp == get_external_rtc_timestamp(c)
             g == GateEntry("sync_time_from_ext_rtc", ext_rtc_tstamp, c)
             k == <<[fn |-> "ext_rtc_read", ok |-> TRUE]>>
         IN  Outcome(g.ok, settimeofday(c, ext_rtc_tstamp), <<g>>,
                     IF g.ok THEN <<>> ELSE GateLog(ext_rtc_tstamp, c),
                     <<WriteEntry("sync_time_from_ext_rtc", ext_rtc_tstamp, c)>>, k)

\* RTC::sync_time_from_ext_rtc
sync_time_from_ext_rtc(c) ==
    IF ~FLAGS.EXTERNAL_RTC_ENABLED
    THEN Outcome(FALSE, c, <<>>, <<>>, <<>>, <<>>)
    ELSE LET ext_rtc_tstamp == get_external_rtc_timestamp(c)
             g == GateEntry("sync_time_from_ext_rtc", ext_rtc_tstamp, c)
             k == <<[fn |-> "ext_rtc_read", ok |-> TRUE]>>
         IN  IF ~g.ok
             THEN Outcome(FALSE, c, <<g>>, GateLog(ext_rtc_tstamp, c), <<>>, k)
             ELSE Outcome(TRUE, settimeofday(c, ext_rtc_tstamp), <<g>>, <<>>,
                          <<WriteEntry("sync_time_from_ext_rtc", ext_rtc_tstamp, c)>>, k)

\* The retry loop of sync_gsm_rtc_from_ntp and sync_time_from_gsm_rtc:
\*     while(tries--) { ret = call(); if(ret != RET_OK && tries - 1) delay(); else break; }
\* tries: the counter before the loop condition is evaluated; n: calls made so
\* far; first_ok: the call that first returns RET_OK (0: none does).
RECURSIVE retry_loop(_, _, _, _, _)
retry_loop(fn, tries, first_ok, n, k) ==
    IF tries = 0
    THEN [ok |-> FALSE, calls |-> k, n |-> n]
    ELSE LET ok == (first_ok = n + 1)
             k1 == Append(k, [fn |-> fn, ok |-> ok])
         IN  IF ~ok /\ (tries - 1) - 1 # 0
             THEN retry_loop(fn, tries - 1, first_ok, n + 1,
                             Append(k1, [fn |-> "delay", ok |-> TRUE]))
             ELSE [ok |-> ok, calls |-> k1, n |-> n + 1]

Delays(k) == Cardinality({i \in 1..Len(k) : k[i].fn = "delay"})

\* RTC::sync_gsm_rtc_from_ntp
sync_gsm_rtc_from_ntp(c, first_ok) ==
    LET r == retry_loop("update_ntp_time", GSM_TRIES, first_ok, 0, <<>>)
    IN  Outcome(r.ok, Pass(c, Delays(r.calls) * GSM_RETRY_DELAY_MS),
                <<>>, <<>>, <<>>, r.calls)

\* RTC::sync_time_from_gsm_rtc; modem_time: mktime of the time the modem gives
sync_time_from_gsm_rtc(c, first_ok, modem_time) ==
    LET r  == retry_loop("get_time", GSM_TRIES, first_ok, 0, <<>>)
        c1 == Pass(c, Delays(r.calls) * GSM_RETRY_DELAY_MS)
        g  == GateEntry("sync_time_from_gsm_rtc", modem_time, c1)
    IN  IF ~r.ok THEN Outcome(FALSE, c1, <<>>, <<>>, <<>>, r.calls)
        ELSE IF ~g.ok
        THEN Outcome(FALSE, c1, <<g>>, GateLog(modem_time, c1), <<>>, r.calls)
        ELSE IF ~set_system_time_ok(modem_time)
        THEN Outcome(FALSE, c1, <<g>>, <<>>, <<>>, r.calls)
        ELSE Outcome(TRUE, settimeofday(c1, modem_time), <<g>>, <<>>,
                     <<WriteEntry("sync_time_from_gsm_rtc", modem_time, c1)>>, r.calls)

\* Characters of an HTTP response body.
DigitChars == <<"0", "1", "2", "3", "4", "5", "6", "7", "8", "9">>

IsDigit(ch) == \E i \in 1..10 : DigitChars[i] = ch

DigitVal(ch) == (CHOOSE i \in 1..10 : DigitChars[i] = ch) - 1

\* The digits a %u conversion consumes: the decimal value of the leading
\* digits of resp, continuing from acc
RECURSIVE scan_u(_, _)
scan_u(resp, acc) ==
    IF resp = <<>> \/ ~IsDigit(Head(resp)) THEN acc
    ELSE scan_u(Tail(resp), acc * 10 + DigitVal(Head(resp)))

\* The white space a conversion skips before it starts.
RECURSIVE skip_space(_)
skip_space(s) ==
    IF s # <<>> /\ Head(s) = " " THEN skip_space(Tail(s)) ELSE s

\* unsigned long timestamp = 0; sscanf(resp, "%u", &timestamp): leading
\* white space is skipped and a sign accepted (a minus negates the value
\* modulo 2^32); nothing is stored, and timestamp stays 0, when no digit
\* follows
sscanf_u(resp) ==
    LET s == skip_space(resp)
        signed == s # <<>> /\ Head(s) \in {"-", "+"}
        d == IF signed THEN Tail(s) ELSE s
    IN  IF d = <<>> \/ ~IsDigit(Head(d)) THEN 0
        ELSE IF signed /\ Head(s) = "-" THEN -scan_u(d, 0)
        ELSE scan_u(d, 0)

\* A conversion to seconds that drops the fraction.
round_ms_to_sec_down(ms) == ms \div 1000

\* round((float) ms / 1000): halves round away from zero
round_ms_to_sec(ms) == (ms + 500) \div 1000

\* An HTTP source that does not look at the length of the body.
sync_time_from_http_any_length(c, get_ok, lat, resp) ==
    LET start_time_ms == c.millis
        c1 == Pass(c, lat)
        end_time_ms == c1.millis
        k == <<[fn |-> "http_get", ok |-> get_ok, body |-> resp, lat |-> lat]>>
        offset_sec == round_ms_to_sec(end_time_ms - start_time_ms)
        timestamp == sscanf_u(resp) - offset_sec
        g == GateEntry("sync_time_from_http", timestamp, c1)
    IN  IF ~get_ok THEN Outcome(FALSE, c1, <<>>, <<>>, <<>>, k)
        ELSE IF ~g.ok
        THEN Outcome(FALSE, c1, <<g>>, GateLog(timestamp, c1), <<>>, k)
        ELSE IF ~set_system_time_ok(timestamp)
        THEN Outcome(FALSE, c1, <<g>>, <<>>, <<>>, k)
        ELSE Outcome(TRUE, settimeofday(c1, timestamp), <<g>>, <<>>,
                     <<WriteEntry("sync_time_from_http", timestamp, c1)>>, k)

\* RTC::sync_time_from_http; get_ok: the GET succeeded; lat: its duration;
\* resp: the body received
sync_time_from_http(c, get_ok, lat, resp) ==
    LET start_time_ms == c.millis
        c1 == Pass(c, lat)
        end_time_ms == c1.millis
        k == <<[fn |-> "http_get", ok |-> get_ok, body |-> resp, lat |-> lat]>>
        offset_sec == round_ms_to_sec(end_time_ms - start_time_ms)
        timestamp == sscanf_u(resp) - offset_sec
        g == GateEntry("sync_time_from_http", timestamp, c1)
    IN  IF ~get_ok THEN Outcome(FALSE, c1, <<>>, <<>>, <<>>, k)
        ELSE IF Len(resp) # 10 THEN Outcome(FALSE, c1, <<>>, <<>>, <<>>, k)
        ELSE IF ~g.ok
        THEN Outcome(FALSE, c1, <<g>>, GateLog(timestamp, c1), <<>>, k)
        ELSE IF ~set_system_time_ok(timestamp)
        THEN Outcome(FALSE, c1, <<g>>, <<>>, <<>>, k)
        ELSE Outcome(TRUE, settimeofday(c1, timestamp), <<g>>, <<>>,
                     <<WriteEntry("sync_time_from_http", timestamp, c1)>>, k)

\* A write that gives the chip the time sync read on entry.
set_external_rtc_time_of_entry(c, timestamp, bus_ok) ==
    IF bus_ok
    THEN [c EXCEPT !.ext = sync_loc.tstamp_before_sync - SECONDS_IN_2000]
    ELSE c

\* RTC::set_external_rtc_time(timestamp): the chip's count after the call;
\* a failed bus write leaves the chip as it was
set_external_rtc_time(c, timestamp, bus_ok) ==
    IF bus_ok THEN [c EXCEPT !.ext = timestamp - SECONDS_IN_2000] ELSE c

\* A checkpoint that holds the system clock as sync read it on entry.
reset_drift_check_before_commit(c) ==
    [tick |-> c.millis, tstamp |-> sync_loc.tstamp_before_sync]

\* RTC::reset_drift_check: the new (tick, tstamp) checkpoint
reset_drift_check(c) == [tick |-> c.millis, tstamp |-> get_timestamp(c)]

\* A drift check that reports the size of the difference without its sign.
detect_drift_magnitude(c) ==
    IF ~FLAGS.EXTERNAL_RTC_ENABLED THEN 0
    ELSE IF last_drift_check_tick = 0 \/ last_drift_check_tstamp = 0 THEN 0
    ELSE LET cur_tstamp == get_external_rtc_timestamp(c)
             tick_since_sync_sec == UDiv1000(c.millis - last_drift_check_tick)
             tstamp_since_sync == Abs(cur_tstamp - last_drift_check_tstamp)
             t == CeilPct5(tick_since_sync_sec)
             tol == IF t < 10 THEN 10 ELSE t
         IN  IF ULt(tstamp_since_sync, tick_since_sync_sec - tol)
                \/ ULt(tick_since_sync_sec + tol, tstamp_since_sync)
             THEN Abs(tstamp_since_sync - tick_since_sync_sec)
             ELSE 0

\* A drift check that does not look for a missing checkpoint.
detect_drift_unguarded(c) ==
    IF ~FLAGS.EXTERNAL_RTC_ENABLED THEN 0
    ELSE LET cur_tstamp == get_external_rtc_timestamp(c)
             tick_since_sync_sec == UDiv1000(c.millis - last_drift_check_tick)
             tstamp_since_sync == Abs(cur_tstamp - last_drift_check_tstamp)
             t == CeilPct5(tick_since_sync_sec)
             tol == IF t < 10 THEN 10 ELSE t
         IN  IF ULt(tstamp_since_sync, tick_since_sync_sec - tol)
                \/ ULt(tick_since_sync_sec + tol, tstamp_since_sync)
             THEN tstamp_since_sync - tick_since_sync_sec
             ELSE 0

\* RTC::detect_drift
detect_drift(c) ==
    IF ~FLAGS.EXTERNAL_RTC_ENABLED THEN 0
    ELSE IF last_drift_check_tick = 0 \/ last_drift_check_tstamp = 0 THEN 0
    ELSE LET cur_tstamp == get_external_rtc_timestamp(c)
             tick_since_sync_sec == UDiv1000(c.millis - last_drift_check_tick)
             tstamp_since_sync == Abs(cur_tstamp - last_drift_check_tstamp)
             t == CeilPct5(tick_since_sync_sec)
             tol == IF t < 10 THEN 10 ELSE t
         IN  IF ULt(tstamp_since_sync, tick_since_sync_sec - tol)
                \/ ULt(tick_since_sync_sec + tol, tstamp_since_sync)
             THEN tstamp_since_sync - tick_since_sync_sec
             ELSE 0

(***************************************************************************)
(* Inputs.                                                                 *)
(***************************************************************************)
\* Whether check_timechange_safe compares a plausible time with the band.
BandApplies == timechange_safety_enabled /\ FLAGS.EXTERNAL_RTC_ENABLED

\* Times a source may report when the clock is c: the true time, the bounds
\* of the plausibility window and their neighbours and, when the tolerance
\* band applies, its bounds and their neighbours.
Cands(c) ==
    {RealTime(c.millis),
     FAIL_CHECK_TIMESTAMP_START, FAIL_CHECK_TIMESTAMP_START + 1,
     FAIL_CHECK_TIMESTAMP_END - 1, FAIL_CHECK_TIMESTAMP_END}
    \cup IF BandApplies
         THEN {get_timestamp(c) + o :
                  o \in {timechange_tol(c), timechange_tol(c) + 1,
                         -timechange_tol(c), -(timechange_tol(c) + 1)}}
         ELSE {}

\* Times the modem's clock may show: the true time, a time past the window
\* and, when the tolerance band applies, its upper bound and the time after it.
ModemCands(c) ==
    {RealTime(c.millis), FAIL_CHECK_TIMESTAMP_END}
    \cup IF BandApplies
         THEN {get_timestamp(c) + timechange_tol(c),
               get_timestamp(c) + timechange_tol(c) + 1}
         ELSE {}

\* the 10 decimal digits of v, 0 <= v < 2^31
Digits10(v) == [i \in 1..10 |-> DigitChars[((v \div (10 ^ (10 - i))) % 10) + 1]]

\* Bodies the time server (or whatever answers in its place) may send when
\* the request took lat ms: a 10-digit time, sent 3 s before it is applied
\* when the request was slow; a 9-digit number; 10 characters that are no number.
HttpBodies(c, lat) ==
    {Digits10(v + o) : v \in {x \in Cands(c) : x >= 0},
                       o \in IF lat = 0 THEN {0} ELSE {3}}
    \cup {SubSeq(Digits10(RealTime(c.millis)), 2, 10),
          <<"a", "b", "c", "d", "e", "f", "g", "h", "i", "j">>}

\* The external RTC chip at power-on: keeping the true time; 40 s ahead of
\* it and not running; after a power loss, with its count kept or reset.
FirstChipState == [ext |-> RealBoot - SECONDS_IN_2000, valid |-> TRUE, running |-> TRUE]

ChipStates ==
    {FirstChipState,
     [ext |-> RealBoot + 40 - SECONDS_IN_2000, valid |-> TRUE, running |-> FALSE],
     [ext |-> RealBoot - SECONDS_IN_2000, valid |-> FALSE, running |-> TRUE],
     [ext |-> 0, valid |-> FALSE, running |-> FALSE]}

(***************************************************************************)
(* setup() of main.cpp, as far as the clock is concerned.                  *)
(***************************************************************************)
\* sync_loc while no call of sync is running or has just returned
NoSync ==
    [caller |-> "none", enable_safety |-> TRUE,
     time_source |-> "TIME_SOURCE_OTHER", tstamp_before_sync |-> 0,
     ret_ok |-> FALSE, update_ext_rtc |-> TRUE, branch |-> "none",
     returned |-> FALSE, sync_events |-> 0, tries |-> 0, gsm_tries |-> GSM_TRIES,
     entry |-> [millis |-> 0, sys |-> 0, sub |-> 0, ext |-> 0,
                ck_tick |-> 0, ck_tstamp |-> 0]]

Init ==
    /\ RemoteIdle
    /\ pc = "setup_init"
    /\ FLAGS \in [EXTERNAL_RTC_ENABLED : BOOLEAN, DEBUG_MODE : BOOLEAN]
    /\ \E sys0 \in {0, RealBoot}, chip \in ChipStates :
          \* DEBUG_MODE is read only when the clock is valid, the chip only
          \* when the external RTC is enabled
          /\ FLAGS.DEBUG_MODE => sys0 = RealBoot
          /\ ~FLAGS.EXTERNAL_RTC_ENABLED => chip = FirstChipState
          /\ clock = [millis |-> BootTick, sys |-> sys0, sub |-> 0, ext |-> chip.ext]
          /\ ext_valid = chip.valid
          /\ ext_running = chip.running
    /\ ext_starts = 0
    /\ last_sync_tick = 0
    /\ last_drift_check_tstamp = 0
    /\ last_drift_check_tick = 0
    /\ timechange_safety_enabled = TRUE
    /\ sync_loc = NoSync
    /\ self_test = [drift |-> 0, ret_ok |-> TRUE, synced |-> FALSE,
                  tasks_ran |-> FALSE, called_home |-> FALSE]
    /\ gsm_on = FALSE
    /\ gates = <<>>
    /\ events = <<>>
    /\ calls = <<>>
    /\ attempts = <<>>
    /\ writes = <<>>

\* RTC::init_external_rtc: TRUE iff the chip is started
init_starts_chip == ext_valid /\ ~ext_running

\* RTC::init (main.cpp:177)
rtc_init ==
    /\ pc = "setup_init"
    /\ pc' = "setup_disable_safety"
    /\ IF FLAGS.EXTERNAL_RTC_ENABLED /\ init_starts_chip
       THEN ext_running' = TRUE /\ ext_starts' = ext_starts + 1
       ELSE UNCHANGED <<ext_running, ext_starts>>
    /\ last_drift_check_tick' = reset_drift_check(clock).tick
    /\ last_drift_check_tstamp' = reset_drift_check(clock).tstamp
    /\ QuietStep
    /\ UNCHANGED <<clock, ext_valid, FLAGS, remote_vars, last_sync_tick,
                   timechange_safety_enabled, sync_loc, self_test, gsm_on>>

\* RTC::enable_timechange_safety(false) (main.cpp:178)
setup_disable_safety ==
    /\ pc = "setup_disable_safety"
    /\ pc' = "setup_ext_sync"
    /\ timechange_safety_enabled' = FALSE
    /\ QuietStep
    /\ UNCHANGED <<clock, chip_vars, FLAGS, remote_vars, last_sync_tick, last_drift_check_tstamp,
                   last_drift_check_tick, sync_loc, self_test, gsm_on>>

\* The effect of a time-source function called outside sync.
ApplyOutcome(r) ==
    /\ clock' = r.clock
    /\ gates' = r.gates
    /\ events' = r.log
    /\ writes' = writes \o r.writes
    /\ calls' = r.calls

\* RTC::sync_time_from_ext_rtc() (main.cpp:179)
setup_ext_sync ==
    /\ pc = "setup_ext_sync"
    /\ pc' = "setup_enable_safety"
    /\ ApplyOutcome(sync_time_from_ext_rtc(clock))
    /\ UNCHANGED <<chip_vars, FLAGS, remote_vars, rtc_vars, sync_loc, self_test, gsm_on, attempts>>

\* RTC::enable_timechange_safety(true) (main.cpp:180)
setup_enable_safety ==
    /\ pc = "setup_enable_safety"
    /\ pc' = "setup_time"
    /\ timechange_safety_enabled' = TRUE
    /\ QuietStep
    /\ UNCHANGED <<clock, chip_vars, FLAGS, remote_vars, last_sync_tick, last_drift_check_tstamp,
                   last_drift_check_tick, sync_loc, self_test, gsm_on>>

\* The locals of sync on entry (rtc.cpp:72-91); sync_events counts the
\* RTC_SYNC events of the call and entry keeps the clocks and the drift
\* checkpoint the call found.
SyncEntry(caller, enable_safety) ==
    [caller |-> caller, enable_safety |-> enable_safety,
     time_source |-> "TIME_SOURCE_OTHER",
     tstamp_before_sync |-> get_timestamp(clock),
     ret_ok |-> FALSE, update_ext_rtc |-> TRUE, branch |-> "none",
     returned |-> FALSE, sync_events |-> 0, tries |-> 0, gsm_tries |-> GSM_TRIES,
     entry |-> [millis |-> clock.millis, sys |-> clock.sys, sub |-> clock.sub,
                ext |-> clock.ext, ck_tick |-> last_drift_check_tick,
                ck_tstamp |-> last_drift_check_tstamp]]

\* main.cpp:288-327: in debug mode with a valid clock the external RTC is
\* read; otherwise the modem is powered on and, unless that fails,
\* RTC::sync(false) is called
setup_time ==
    /\ pc = "setup_time"
    /\ IF FLAGS.DEBUG_MODE /\ tstamp_valid(get_timestamp(clock))
       THEN /\ pc' = "loop_sleep"
            /\ ApplyOutcome(sync_time_from_ext_rtc(clock))
            /\ UNCHANGED <<sync_loc, attempts, gsm_on>>
       ELSE \E gsm_on_ok \in BOOLEAN :
            /\ gsm_on' = gsm_on_ok
            /\ IF gsm_on_ok
               THEN /\ pc' = "sync_begin"
                    /\ sync_loc' = SyncEntry("setup", FALSE)
                    /\ NewOperation
                    /\ UNCHANGED clock
               ELSE /\ pc' = "loop_sleep"
                    /\ QuietStep
                    /\ UNCHANGED <<clock, sync_loc>>
    /\ UNCHANGED <<chip_vars, FLAGS, remote_vars, rtc_vars, self_test>>

(***************************************************************************)
(* RTC::sync, one action per source it may try.                            *)
(***************************************************************************)
\* The effect of time-source function fn, called by sync with outcome r.
ApplyAttempt(fn, r) ==
    /\ ApplyOutcome(r)
    /\ attempts' = Append(attempts, [fn |-> fn, ok |-> r.ok])

\* rtc.cpp:72-94: the safety flag is set to the argument and the modem's
\* connection decides the branch
sync_begin ==
    /\ pc = "sync_begin"
    /\ timechange_safety_enabled' = sync_loc.enable_safety
    /\ \E connected \in BOOLEAN, connect_ok \in BOOLEAN :
          /\ connected => connect_ok
          \* a modem that could not be powered on has no connection
          /\ ~gsm_on => ~connected /\ ~connect_ok
          /\ calls' = IF connected
                      THEN <<[fn |-> "is_gprs_connected", ok |-> TRUE]>>
                      ELSE <<[fn |-> "is_gprs_connected", ok |-> FALSE],
                             [fn |-> "connect_persist", ok |-> connect_ok]>>
          /\ pc' = IF connected \/ connect_ok THEN "sync_http" ELSE "sync_ext_only"
          /\ sync_loc' = [sync_loc EXCEPT !.branch =
                              IF connected \/ connect_ok THEN "network" ELSE "no_network"]
    /\ gates' = <<>> /\ events' = <<>>
    /\ UNCHANGED <<clock, chip_vars, FLAGS, remote_vars, last_sync_tick, last_drift_check_tstamp,
                   last_drift_check_tick, self_test, gsm_on, attempts, writes>>

\* rtc.cpp:102-116
sync_http ==
    /\ pc = "sync_http"
    /\ \E get_ok \in BOOLEAN, lat \in HttpLatencies :
          \E resp \in HttpBodies(Pass(clock, lat), lat) :
             LET r == sync_time_from_http(clock, get_ok, lat, resp)
             IN  /\ ApplyAttempt("sync_time_from_http", r)
                 /\ IF r.ok
                    THEN /\ sync_loc' = [sync_loc EXCEPT !.ret_ok = TRUE,
                                             !.time_source = "TIME_SOURCE_HTTP"]
                         /\ pc' = "sync_finish"
                    ELSE /\ pc' = "sync_ntp"
                         /\ UNCHANGED sync_loc
    /\ UNCHANGED <<chip_vars, FLAGS, remote_vars, rtc_vars, self_test, gsm_on>>

\* rtc.cpp:118, left operand of &&; on_fail: where sync goes on when the NTP
\* trigger failed
sync_ntp_step(on_fail) ==
    /\ pc = "sync_ntp"
    /\ \E first_ok \in 0..GSM_TRIES :
          LET r == sync_gsm_rtc_from_ntp(clock, first_ok)
          IN  /\ ApplyAttempt("sync_gsm_rtc_from_ntp", r)
              /\ pc' = IF r.ok THEN "sync_ntp_gsm" ELSE on_fail
    /\ UNCHANGED <<chip_vars, FLAGS, remote_vars, rtc_vars, sync_loc, self_test, gsm_on>>

\* A sync that goes from a failed NTP trigger straight to the modem clock.
sync_ntp_skips_ext == sync_ntp_step("sync_gsm")

sync_ntp == sync_ntp_step("sync_ext")

\* rtc.cpp:118-126, right operand of &&
sync_ntp_gsm ==
    /\ pc = "sync_ntp_gsm"
    /\ \E first_ok \in 0..GSM_TRIES, modem_time \in ModemCands(clock) :
          LET r == sync_time_from_gsm_rtc(clock, first_ok, modem_time)
          IN  /\ ApplyAttempt("sync_time_from_gsm_rtc", r)
              /\ IF r.ok
                 THEN /\ sync_loc' = [sync_loc EXCEPT !.ret_ok = TRUE,
                                          !.time_source = "TIME_SOURCE_NTP"]
                      /\ pc' = "sync_finish"
                 ELSE /\ pc' = "sync_ext"
                      /\ UNCHANGED sync_loc
    /\ UNCHANGED <<chip_vars, FLAGS, remote_vars, rtc_vars, self_test, gsm_on>>

\* rtc.cpp:132-144 (next: the modem clock) and rtc.cpp:166-174 (next: the end)
sync_ext_step(here, next) ==
    /\ pc = here
    /\ IF FLAGS.EXTERNAL_RTC_ENABLED
       THEN LET r == sync_time_from_ext_rtc(clock)
            IN  /\ ApplyAttempt("sync_time_from_ext_rtc", r)
                /\ IF r.ok
                   THEN /\ sync_loc' = [sync_loc EXCEPT !.ret_ok = TRUE,
                                            !.update_ext_rtc = FALSE]
                        /\ pc' = "sync_finish"
                   ELSE /\ pc' = next
                        /\ UNCHANGED sync_loc
       ELSE /\ pc' = next
            /\ QuietStep
            /\ UNCHANGED <<clock, sync_loc>>
    /\ UNCHANGED <<chip_vars, FLAGS, remote_vars, rtc_vars, self_test, gsm_on>>

sync_ext == sync_ext_step("sync_ext", "sync_gsm")

\* A sync that, without network, falls back on the modem clock.
sync_ext_only_then_gsm == sync_ext_step("sync_ext_only", "sync_gsm")

sync_ext_only == sync_ext_step("sync_ext_only", "sync_finish")

\* rtc.cpp:147-158
sync_gsm ==
    /\ pc = "sync_gsm"
    /\ \E first_ok \in 0..GSM_TRIES, modem_time \in ModemCands(clock) :
          LET r == sync_time_from_gsm_rtc(clock, first_ok, modem_time)
          IN  /\ ApplyAttempt("sync_time_from_gsm_rtc", r)
              /\ IF r.ok
                 THEN sync_loc' = [sync_loc EXCEPT !.ret_ok = TRUE,
                                      !.time_source = "TIME_SOURCE_GSM"]
                 ELSE UNCHANGED sync_loc
    /\ pc' = "sync_finish"
    /\ UNCHANGED <<chip_vars, FLAGS, remote_vars, rtc_vars, self_test, gsm_on>>

\* A sync that writes the external RTC after every successful run.
ext_rtc_update_on_success == FLAGS.EXTERNAL_RTC_ENABLED /\ sync_loc.ret_ok

\* A sync that never writes the external RTC.
ext_rtc_update_never == FALSE

\* rtc.cpp:179: the external RTC is written after a successful run whose
\* time did not come from it
ext_rtc_update_due ==
    FLAGS.EXTERNAL_RTC_ENABLED /\ sync_loc.update_ext_rtc /\ sync_loc.ret_ok

\* A log event that carries the system clock read when the run ends.
sync_log_event_clock_after ==
    [code |-> "RTC_SYNC",
     args |-> <<get_timestamp(clock), sync_loc.time_source>>]

\* rtc.cpp:185: Log::log(Log::RTC_SYNC, tstamp_before_sync, time_source)
sync_log_event ==
    [code |-> "RTC_SYNC",
     args |-> <<sync_loc.tstamp_before_sync, sync_loc.time_source>>]

\* A last sync tick that only a successful run moves.
last_sync_tick_on_success(c) ==
    IF sync_loc.ret_ok THEN c.millis ELSE last_sync_tick

\* rtc.cpp:188: _last_sync_tick = millis(), failed or not
last_sync_tick_after(c) == c.millis

\* A drift checkpoint that every run resets.
checkpoint_always == TRUE

\* rtc.cpp:191: the drift checkpoint is reset after a successful run
checkpoint_due == sync_loc.ret_ok

\* rtc.cpp:177-198: external RTC update, log, last sync tick, drift
\* checkpoint, safety re-enabled, return to the caller
sync_finish_step(safety_after) ==
    /\ pc = "sync_finish"
    /\ \E bus_ok \in BOOLEAN :
          LET upd == ext_rtc_update_due
              c1  == IF upd
                     THEN set_external_rtc_time(clock, get_timestamp(clock), bus_ok)
                     ELSE clock
          IN  /\ upd \/ bus_ok
              /\ clock' = c1
              /\ calls' = IF upd
                          THEN <<[fn |-> "ext_rtc_write", ok |-> bus_ok]>>
                          ELSE <<>>
              /\ events' = <<sync_log_event>>
              /\ gates' = <<>>
              /\ last_sync_tick' = last_sync_tick_after(c1)
              /\ IF checkpoint_due
                 THEN /\ last_drift_check_tick' = reset_drift_check(c1).tick
                      /\ last_drift_check_tstamp' = reset_drift_check(c1).tstamp
                 ELSE UNCHANGED <<last_drift_check_tick, last_drift_check_tstamp>>
    /\ timechange_safety_enabled' = safety_after
    /\ sync_loc' = [sync_loc EXCEPT !.returned = TRUE,
                                    !.sync_events = sync_loc.sync_events + 1]
    /\ pc' = IF sync_loc.caller = "setup" THEN "loop_sleep" ELSE "self_test_end"
    /\ UNCHANGED <<chip_vars, FLAGS, remote_vars, self_test, gsm_on, attempts, writes>>

\* A sync that returns with the safety flag its caller asked for.
sync_finish_keeps_flag == sync_finish_step(sync_loc.enable_safety)

\* rtc.cpp:196: enable_timechange_safety(true)
sync_finish == sync_finish_step(TRUE)

(***************************************************************************)
(* loop() of main.cpp: sleep, wake-up self-test, scheduled tasks.          *)
(***************************************************************************)
\* SleepScheduler::sleep_to_next(): time passes, the external RTC may drift
loop_sleep_step(cases) ==
    /\ pc = "loop_sleep"
    /\ \E s \in cases :
          /\ clock.millis + s.d <= MaxTick
          \* the chip is not read when the external RTC is disabled
          /\ ~FLAGS.EXTERNAL_RTC_ENABLED => s.drift = 0
          /\ clock' = [Pass(clock, s.d) EXCEPT !.ext = @ + s.drift]
    /\ pc' = "self_test"
    /\ self_test' = [drift |-> 0, ret_ok |-> TRUE, synced |-> FALSE,
                  tasks_ran |-> FALSE, called_home |-> FALSE]
    /\ NewOperation
    /\ sync_loc' = NoSync
    /\ gsm_on' = FALSE
    /\ UNCHANGED <<chip_vars, FLAGS, remote_vars, rtc_vars>>

loop_sleep == loop_sleep_step(SleepCases)

\* wakeup_self_test, main.cpp:371-397: up to the call of RTC::sync()
wakeup_self_test ==
    /\ pc = "self_test"
    /\ LET drift == detect_drift(clock)
       IN  IF ~tstamp_valid(get_timestamp(clock)) \/ drift > 0
           THEN \E gsm_on_ok \in BOOLEAN :
                   /\ self_test' = [self_test EXCEPT !.drift = drift,
                                        !.ret_ok = gsm_on_ok, !.synced = TRUE]
                   /\ gsm_on' = gsm_on_ok
                   /\ calls' = <<[fn |-> "gsm_on", ok |-> gsm_on_ok]>>
                   /\ events' = IF drift > 0
                                THEN <<[code |-> "RTC_DRIFT_DETECTED",
                                        args |-> <<drift, get_external_rtc_timestamp(clock)>>]>>
                                ELSE <<>>
                   /\ sync_loc' = SyncEntry("wakeup_self_test", SYNC_DEFAULT_SAFETY)
                   /\ pc' = "sync_begin"
           ELSE /\ self_test' = [self_test EXCEPT !.drift = drift]
                /\ pc' = "loop_tasks"
                /\ UNCHANGED <<events, calls, sync_loc, gsm_on>>
    /\ UNCHANGED <<clock, chip_vars, FLAGS, remote_vars, rtc_vars, gates, attempts, writes>>

\* A self-test whose result is that of sync alone.
self_test_end_sync_only ==
    /\ pc = "self_test_end"
    /\ LET ret_ok == sync_loc.ret_ok
       IN  /\ self_test' = [self_test EXCEPT !.ret_ok = ret_ok]
           /\ events' = IF ret_ok THEN <<>>
                        ELSE <<[code |-> "WAKEUP_SELF_TEST_FAILED", args |-> <<>>]>>
    /\ pc' = "loop_tasks"
    /\ gates' = <<>> /\ calls' = <<>>
    /\ UNCHANGED <<clock, chip_vars, FLAGS, remote_vars, rtc_vars, sync_loc, gsm_on, attempts,
                   writes>>

\* wakeup_self_test, main.cpp:397-414: after RTC::sync() returned
self_test_end ==
    /\ pc = "self_test_end"
    /\ LET ret_ok == self_test.ret_ok /\ sync_loc.ret_ok
       IN  /\ self_test' = [self_test EXCEPT !.ret_ok = ret_ok]
           /\ events' = IF ret_ok THEN <<>>
                        ELSE <<[code |-> "WAKEUP_SELF_TEST_FAILED", args |-> <<>>]>>
    /\ pc' = "loop_tasks"
    /\ gates' = <<>> /\ calls' = <<>>
    /\ UNCHANGED <<clock, chip_vars, FLAGS, remote_vars, rtc_vars, sync_loc, gsm_on, attempts,
                   writes>>

\* loop, main.cpp:534-538, after the if/else on the self-test's result:
\* if(wakeup_reason_is(REASON_CALL_HOME)) CallHome::start()
call_home_due(reason_call_home) == reason_call_home

\* loop, main.cpp:451-538: the measurement tasks are in the else branch of
\* if(wakeup_self_test() != RET_OK); reason_call_home: calling home is
\* among the reasons of this wake-up
loop_tasks ==
    /\ pc = "loop_tasks"
    /\ \E reason_call_home \in BOOLEAN :
          self_test' = [self_test EXCEPT !.tasks_ran = self_test.ret_ok,
                            !.called_home = call_home_due(reason_call_home)]
    /\ pc' = "loop_sleep"
    /\ QuietStep
    /\ UNCHANGED <<clock, chip_vars, FLAGS, remote_vars, rtc_vars, sync_loc, gsm_on>>

Next ==
    \/ rtc_init
    \/ setup_disable_safety
    \/ setup_ext_sync
    \/ setup_enable_safety
    \/ setup_time
    \/ sync_begin
    \/ sync_http
    \/ sync_ntp
    \/ sync_ntp_gsm
    \/ sync_ext
    \/ sync_ext_only
    \/ sync_gsm
    \/ sync_finish
    \/ loop_sleep
    \/ wakeup_self_test
    \/ self_test_end
    \/ loop_tasks

Spec == Init /\ [][Next]_vars

(***************************************************************************)
(* RTC::detect_drift on its own: the checkpoint, the tick counter and the  *)
(* external RTC are drawn from the sets below and the function is called   *)
(* once, as wakeup_self_test calls it.                                     *)
(***************************************************************************)
\* (tick, timestamp) checkpoints: never taken, taken at tick 0, taken with an
\* unset system clock, taken with a set one
DriftCheckpoints ==
    {[tick |-> 0, tstamp |-> 0], [tick |-> 0, tstamp |-> 1000],
     [tick |-> 500, tstamp |-> 0], [tick |-> 500, tstamp |-> 1000],
     [tick |-> 500, tstamp |-> RealBoot]}

\* Milliseconds of the tick counter since the checkpoint.
DriftTickMs == {0, 5000, 5999, 120000, 199000, 400000}

\* Seconds the external RTC has gained on the tick counter since the
\* checkpoint.
DriftRtcGains == {-21, -20, -15, -11, -10, -2, 0, 2, 10, 11, 15, 20, 21}

InitDrift ==
    /\ RemoteIdle
    /\ pc = "drift_probe"
    /\ \E ext_en \in BOOLEAN :
          FLAGS = [EXTERNAL_RTC_ENABLED |-> ext_en, DEBUG_MODE |-> FALSE]
    /\ \E ck \in DriftCheckpoints, el \in DriftTickMs, gain \in DriftRtcGains :
          /\ last_drift_check_tick = ck.tick
          /\ last_drift_check_tstamp = ck.tstamp
          /\ clock = [millis |-> ck.tick + el, sys |-> RealBoot, sub |-> 0,
                      ext |-> (ck.tstamp + (el \div 1000) + gain)
                                 - c_Epoch32OfOriginYear]
    /\ ext_valid = TRUE
    /\ ext_running = TRUE
    /\ ext_starts = 0
    /\ last_sync_tick = last_drift_check_tick
    /\ timechange_safety_enabled = TRUE
    /\ sync_loc = NoSync
    /\ self_test = [drift |-> 0, ret_ok |-> TRUE, synced |-> FALSE,
                  tasks_ran |-> FALSE, called_home |-> FALSE]
    /\ gsm_on = FALSE
    /\ gates = <<>>
    /\ events = <<>>
    /\ calls = <<>>
    /\ attempts = <<>>
    /\ writes = <<>>

\* main.cpp:374: int drift = RTC::detect_drift()
drift_probe ==
    /\ pc = "drift_probe"
    /\ pc' = "drift_done"
    /\ self_test' = [self_test EXCEPT !.drift = detect_drift(clock)]
    /\ QuietStep
    /\ UNCHANGED <<clock, chip_vars, FLAGS, remote_vars, rtc_vars, sync_loc, gsm_on>>

NextDrift == drift_probe

SpecDrift == InitDrift /\ [][NextDrift]_vars

(***************************************************************************)
(* RTC::sync_time_from_http on its own: sync has been entered with the     *)
(* network up, and the function is called once with a response and a       *)
(* request duration drawn from the sets below.                             *)
(***************************************************************************)
\* Milliseconds the GET may take.
HttpProbeLatencies == {0, 499, 500, 1499, 1500, 2500}

\* The tick counter when the request is sent.
HttpProbeStartTick == 1000

\* Response bodies: ten digits (the time 1700000000; times around the
\* system clock and the plausibility window); nine digits; eleven
\* characters; ten characters that are not all digits, among them a
\* plausible time cut short by a letter, a line feed, a sign or a blank;
\* an empty body.
HttpProbeBodies(c) ==
    {Digits10(v) : v \in {1700000000, RealBoot, RealBoot + 1, RealBoot + 3,
                          RealBoot + 13, RealBoot + 14,
                          FAIL_CHECK_TIMESTAMP_START, FAIL_CHECK_TIMESTAMP_END}}
    \cup {SubSeq(Digits10(RealBoot), 1, 9),
          SubSeq(Digits10(1700000000), 1, 9),
          Digits10(RealBoot) \o <<"x">>,
          Digits10(RealBoot + 3) \o <<"\n">>,
          <<" ">> \o Digits10(RealBoot),
          SubSeq(Digits10(RealBoot), 1, 9) \o <<"x">>,
          SubSeq(Digits10(RealBoot), 1, 9) \o <<"\n">>,
          <<"-">> \o SubSeq(Digits10(RealBoot), 1, 9),
          <<" ">> \o SubSeq(Digits10(RealBoot), 1, 9),
          <<"a", "b", "c", "d", "e", "f", "g", "h", "i", "j">>,
          <<>>}

InitHttp ==
    /\ RemoteIdle
    /\ pc = "http_probe"
    /\ \E ext_en \in BOOLEAN :
          FLAGS = [EXTERNAL_RTC_ENABLED |-> ext_en, DEBUG_MODE |-> FALSE]
    /\ \E sys \in {0, RealBoot} :
          clock = [millis |-> HttpProbeStartTick, sys |-> sys, sub |-> 0,
                   ext |-> RealBoot - c_Epoch32OfOriginYear]
    /\ ext_valid = TRUE
    /\ ext_running = TRUE
    /\ ext_starts = 0
    /\ last_sync_tick = 0
    /\ last_drift_check_tick = 0
    /\ last_drift_check_tstamp = 0
    /\ timechange_safety_enabled \in BOOLEAN
    /\ sync_loc = [SyncEntry("sync", timechange_safety_enabled)
                      EXCEPT !.branch = "network"]
    /\ self_test = [drift |-> 0, ret_ok |-> TRUE, synced |-> FALSE,
                  tasks_ran |-> FALSE, called_home |-> FALSE]
    /\ gsm_on = TRUE
    /\ gates = <<>>
    /\ events = <<>>
    /\ calls = <<>>
    /\ attempts = <<>>
    /\ writes = <<>>

\* rtc.cpp:102: sync_time_from_http(), the first source sync tries
http_probe ==
    /\ pc = "http_probe"
    /\ pc' = "http_done"
    /\ \E get_ok \in BOOLEAN, lat \in HttpProbeLatencies :
          \E resp \in HttpProbeBodies(clock) :
             ApplyAttempt("sync_time_from_http",
                          sync_time_from_http(clock, get_ok, lat, resp))
    /\ UNCHANGED <<chip_vars, FLAGS, remote_vars, rtc_vars, sync_loc, self_test, gsm_on>>

NextHttp == http_probe

SpecHttp == InitHttp /\ [][NextHttp]_vars

(***************************************************************************)
(* A wake-up after a successful sync at boot, and the wake-ups that follow *)
(* it after short sleeps: the device woke 220 s after the boot sync with   *)
(* the external RTC 15 s ahead of the ticks.                               *)
(***************************************************************************)
\* The sleep that led to the first wake-up, and the sleep between wake-ups.
FirstSleepMs == 220000

RetrySleepMs == 5000

RetrySleepCases == {[d |-> RetrySleepMs, drift |-> 0]}

\* The tick counter at the first wake-up.
RetryWakeTick == BootTick + FirstSleepMs

InitRetry ==
    /\ RemoteIdle
    /\ pc = "self_test"
    /\ FLAGS = [EXTERNAL_RTC_ENABLED |-> TRUE, DEBUG_MODE |-> FALSE]
    /\ clock = [millis |-> RetryWakeTick, sys |-> RealTime(RetryWakeTick), sub |-> 0,
                ext |-> (RealTime(RetryWakeTick) + 15) - SECONDS_IN_2000]
    /\ ext_valid = TRUE
    /\ ext_running = TRUE
    /\ ext_starts = 0
    /\ last_sync_tick = BootTick
    /\ last_drift_check_tick = BootTick
    /\ last_drift_check_tstamp = RealBoot
    /\ timechange_safety_enabled = TRUE
    /\ sync_loc = NoSync
    /\ self_test = [drift |-> 0, ret_ok |-> TRUE, synced |-> FALSE,
                  tasks_ran |-> FALSE, called_home |-> FALSE]
    /\ gsm_on = FALSE
    /\ gates = <<>>
    /\ events = <<>>
    /\ calls = <<>>
    /\ attempts = <<>>
    /\ writes = <<>>

\* SleepScheduler::sleep_to_next (main.cpp:431), a short sleep
loop_sleep_retry == loop_sleep_step(RetrySleepCases)

NextRetry ==
    \/ loop_sleep_retry
    \/ wakeup_self_test
    \/ sync_begin
    \/ sync_http
    \/ sync_ntp
    \/ sync_ntp_gsm
    \/ sync_ext
    \/ sync_ext_only
    \/ sync_gsm
    \/ sync_finish
    \/ self_test_end
    \/ loop_tasks

SpecRetry == InitRetry /\ [][NextRetry]_vars

(***************************************************************************)
(* The retry loops of sync_gsm_rtc_from_ntp and sync_time_from_gsm_rtc     *)
(* step by step, for builds with GSM_TRIES from 0 to MaxTries, next to the *)
(* wake-ups of SpecRetry: sync_loc.tries is the loops' counter tries and   *)
(* sync_loc.gsm_tries the value of GSM_TRIES the build was made with.      *)
(***************************************************************************)
MaxTries == 6

InitTries ==
    /\ RemoteIdle
    /\ pc \in {"retry_ntp", "retry_gsm"}
    /\ FLAGS = [EXTERNAL_RTC_ENABLED |-> TRUE, DEBUG_MODE |-> FALSE]
    /\ clock = [millis |-> BootTick, sys |-> RealBoot, sub |-> 0,
                ext |-> RealBoot - SECONDS_IN_2000]
    /\ ext_valid = TRUE
    /\ ext_running = TRUE
    /\ ext_starts = 0
    /\ last_sync_tick = 0
    /\ last_drift_check_tick = 0
    /\ last_drift_check_tstamp = 0
    /\ timechange_safety_enabled = TRUE
    /\ \E n \in 0..MaxTries :
          \* int tries = GSM_TRIES
          sync_loc = [SyncEntry("sync", TRUE)
                         EXCEPT !.branch = "network", !.tries = n, !.gsm_tries = n]
    /\ self_test = [drift |-> 0, ret_ok |-> TRUE, synced |-> FALSE,
                  tasks_ran |-> FALSE, called_home |-> FALSE]
    /\ gsm_on = TRUE
    /\ gates = <<>>
    /\ events = <<>>
    /\ calls = <<>>
    /\ attempts = <<>>
    /\ writes = <<>>

\* A loop that goes on while the counter is not negative: while(tries-- >= 0).
retry_step_while_not_negative(here, fn) ==
    /\ pc = here
    /\ LET tries == sync_loc.tries - 1
       IN  /\ IF sync_loc.tries < 0
              THEN /\ pc' = "retry_done"
                   /\ UNCHANGED <<calls, clock>>
              ELSE \E ok \in BOOLEAN :
                      IF ~ok /\ tries - 1 # 0
                      THEN /\ calls' = calls \o <<[fn |-> fn, ok |-> ok],
                                                  [fn |-> "delay", ok |-> TRUE]>>
                           /\ clock' = Pass(clock, GSM_RETRY_DELAY_MS)
                           /\ pc' = here
                      ELSE /\ calls' = Append(calls, [fn |-> fn, ok |-> ok])
                           /\ pc' = "retry_done"
                           /\ UNCHANGED clock
           /\ sync_loc' = [sync_loc EXCEPT !.tries = tries]
    /\ UNCHANGED <<chip_vars, FLAGS, remote_vars, rtc_vars, self_test, gsm_on, gates, events,
                   attempts, writes>>

\* One evaluation of while(tries--) and, when it is true, one pass through
\* the body: ret = call(); if(ret != RET_OK && tries - 1) delay(); else break;
retry_step(here, fn) ==
    /\ pc = here
    /\ LET tries == sync_loc.tries - 1
       IN  /\ IF sync_loc.tries = 0
              THEN /\ pc' = "retry_done"
                   /\ UNCHANGED <<calls, clock>>
              ELSE \E ok \in BOOLEAN :
                      IF ~ok /\ tries - 1 # 0
                      THEN /\ calls' = calls \o <<[fn |-> fn, ok |-> ok],
                                                  [fn |-> "delay", ok |-> TRUE]>>
                           /\ clock' = Pass(clock, GSM_RETRY_DELAY_MS)
                           /\ pc' = here
                      ELSE /\ calls' = Append(calls, [fn |-> fn, ok |-> ok])
                           /\ pc' = "retry_done"
                           /\ UNCHANGED clock
           /\ sync_loc' = [sync_loc EXCEPT !.tries = tries]
    /\ UNCHANGED <<chip_vars, FLAGS, remote_vars, rtc_vars, self_test, gsm_on, gates, events,
                   attempts, writes>>

\* rtc.cpp:213-229
ntp_retry_step == retry_step("retry_ntp", "update_ntp_time")

\* rtc.cpp:252-264
get_time_retry_step == retry_step("retry_gsm", "get_time")

\* The steps of a sync run.
SyncSteps ==
    \/ sync_begin
    \/ sync_http
    \/ sync_ntp
    \/ sync_ntp_gsm
    \/ sync_ext
    \/ sync_ext_only
    \/ sync_gsm
    \/ sync_finish

InitLive == InitRetry \/ InitTries

NextLive == NextRetry \/ ntp_retry_step \/ get_time_retry_step

\* A call of sync, once made, runs to its end: every call it makes returns.
SpecLive ==
    /\ InitLive
    /\ [][NextLive]_vars
    /\ WF_vars(SyncSteps)
    /\ WF_vars(ntp_retry_step \/ get_time_retry_step)

(***************************************************************************)
(* RTC::set_external_rtc_time on its own: the system clock holds a         *)
(* plausible time, the chip any count, and the function is called once     *)
(* with time(NULL), as sync calls it.                                      *)
(***************************************************************************)
\* Plausible times: the 30 s after the start of the window, the 30 s before
\* its end, and the true time at boot.
ExtProbeTimes ==
    {FAIL_CHECK_TIMESTAMP_START + o : o \in 1..30}
    \cup {FAIL_CHECK_TIMESTAMP_END - o : o \in 1..30}
    \cup {RealBoot}

\* Counts the chip may hold before the write: reset, and 40 s ahead of the
\* true time.
ExtProbeCounts == {0, (RealBoot + 40) - SECONDS_IN_2000}

InitExtWrite ==
    /\ RemoteIdle
    /\ pc = "ext_write_probe"
    /\ FLAGS = [EXTERNAL_RTC_ENABLED |-> TRUE, DEBUG_MODE |-> FALSE]
    /\ \E t \in ExtProbeTimes, n \in ExtProbeCounts :
          clock = [millis |-> BootTick, sys |-> t, sub |-> 0, ext |-> n]
    /\ ext_valid = TRUE
    /\ ext_running = TRUE
    /\ ext_starts = 0
    /\ last_sync_tick = 0
    /\ last_drift_check_tick = 0
    /\ last_drift_check_tstamp = 0
    /\ timechange_safety_enabled = TRUE
    /\ sync_loc = [SyncEntry("sync", TRUE) EXCEPT !.ret_ok = TRUE]
    /\ self_test = [drift |-> 0, ret_ok |-> TRUE, synced |-> FALSE,
                  tasks_ran |-> FALSE, called_home |-> FALSE]
    /\ gsm_on = TRUE
    /\ gates = <<>>
    /\ events = <<>>
    /\ calls = <<>>
    /\ attempts = <<>>
    /\ writes = <<>>

\* rtc.cpp:181: set_external_rtc_time(time(NULL))
ext_write_probe ==
    /\ pc = "ext_write_probe"
    /\ pc' = "ext_write_done"
    /\ \E bus_ok \in BOOLEAN :
          /\ clock' = set_external_rtc_time(clock, get_timestamp(clock), bus_ok)
          /\ calls' = <<[fn |-> "ext_rtc_write", ok |-> bus_ok]>>
    /\ gates' = <<>> /\ events' = <<>>
    /\ UNCHANGED <<chip_vars, FLAGS, remote_vars, rtc_vars, sync_loc, self_test, gsm_on,
                   attempts, writes>>

NextExtWrite == ext_write_probe

SpecExtWrite == InitExtWrite /\ [][NextExtWrite]_vars

(***************************************************************************)
(* Wake-ups of a device whose clock is wrong: at boot the modem could not  *)
(* be powered on, so no sync ran; the device has slept 215 s and then      *)
(* wakes every 5 s, and every step the loop can take is taken.             *)
(***************************************************************************)
\* The sleep that led to the first wake-up, and the tick counter then.
FirstLockoutSleepMs == 215000

LockoutWakeTick == BootTick + FirstLockoutSleepMs

\* The clock and the chip at the first wake-up: the clock started from 0 and
\* the chip, reset by a power loss, read a time in 2000 that setup turned
\* down; the clock had kept the true time over the reset and setup replaced
\* it by the time of a chip 40 s ahead.
LockoutCases ==
    {[sys |-> FirstLockoutSleepMs \div 1000, ext |-> FirstLockoutSleepMs \div 1000,
      valid |-> FALSE, running |-> FALSE,
      ck_tstamp |-> 0],
     [sys |-> RealTime(LockoutWakeTick) + 40,
      ext |-> (RealTime(LockoutWakeTick) + 40) - SECONDS_IN_2000,
      valid |-> TRUE, running |-> TRUE, ck_tstamp |-> RealBoot]}

InitLockout ==
    /\ RemoteIdle
    /\ pc = "self_test"
    /\ FLAGS = [EXTERNAL_RTC_ENABLED |-> TRUE, DEBUG_MODE |-> FALSE]
    /\ \E s \in LockoutCases :
          /\ clock = [millis |-> LockoutWakeTick, sys |-> s.sys, sub |-> 0,
                      ext |-> s.ext]
          /\ ext_valid = s.valid
          /\ ext_running = s.running
          /\ ext_starts = IF s.valid /\ ~s.running THEN 1 ELSE 0
          /\ last_drift_check_tstamp = s.ck_tstamp
    /\ last_sync_tick = 0
    /\ last_drift_check_tick = BootTick
    /\ timechange_safety_enabled = TRUE
    /\ sync_loc = NoSync
    /\ self_test = [drift |-> 0, ret_ok |-> TRUE, synced |-> FALSE,
                  tasks_ran |-> FALSE, called_home |-> FALSE]
    /\ gsm_on = FALSE
    /\ gates = <<>>
    /\ events = <<>>
    /\ calls = <<>>
    /\ attempts = <<>>
    /\ writes = <<>>

SpecLockout == InitLockout /\ [][NextRetry]_vars /\ WF_vars(NextRetry)

(***************************************************************************)
(* RemoteControl::start, called again and again with what the server       *)
(* answers: a failed request, a body that is no JSON, a JSON without the   *)
(* shared attributes or without the data id, or remote control data.       *)
(***************************************************************************)
MaxApplied == 3

RcIds == {1, 2}

RcIntervals == {Absent, 0, 2}

\* what a request that brought no remote control data leaves of the fields
NoData == [id |-> Absent, ws_int |-> Absent, ch_int |-> Absent,
           format |-> "no", ota |-> FALSE, reboot |-> FALSE]

\* got: how far the request and the parsing came; id, ws_int, ch_int: the
\* values of the keys; format: the format key is absent or false ("no"), or
\* true and SPIFFS.format() returns true ("ok") or false ("failed"); ota,
\* reboot: the key is present and true
RcResponses ==
    {NoData @@ [got |-> g] :
        g \in {"request_failed", "parse_failed", "no_shared", "no_id"}}
    \cup [got : {"data"}, id : RcIds, ws_int : RcIntervals, ch_int : RcIntervals,
          format : {"no", "ok", "failed"}, ota : BOOLEAN, reboot : BOOLEAN]

\* handle_user_config applied to the key of one interval
interval_valid(val, min, max) == ~(val < min \/ val > max)

set_interval(cfg, reason, val, min, max) ==
    IF val # Absent /\ interval_valid(val, min, max)
    THEN [cfg EXCEPT !.wakeup_schedule_reason_int[reason] = val]
    ELSE cfg

interval_events(val, min, max, failed, success) ==
    IF val = Absent THEN <<>>
    ELSE IF interval_valid(val, min, max)
         THEN <<[code |-> success, args |-> <<val>>]>>
         ELSE <<[code |-> failed, args |-> <<val>>]>>

\* RemoteControl::handle_user_config: the stored configuration after it
handle_user_config(cfg, json) ==
    set_interval(
        set_interval(cfg, "REASON_READ_WATER_SENSORS", json.ws_int,
                     MEASURE_WATER_SENSORS_INT_MINS_MIN,
                     MEASURE_WATER_SENSORS_INT_MINS_MAX),
        "REASON_CALL_HOME", json.ch_int,
        CALL_HOME_INT_MINS_MIN, CALL_HOME_INT_MINS_MAX)

\* RemoteControl::handle_user_config: what it logs
user_config_events(json) ==
    interval_events(json.ws_int, MEASURE_WATER_SENSORS_INT_MINS_MIN,
                    MEASURE_WATER_SENSORS_INT_MINS_MAX,
                    "RC_WATER_SENSORS_READ_INT_SET_FAILED",
                    "RC_WATER_SENSORS_READ_INT_SET_SUCCESS")
    \o interval_events(json.ch_int, CALL_HOME_INT_MINS_MIN, CALL_HOME_INT_MINS_MAX,
                       "RC_CALL_HOME_INT_SET_FAILED", "RC_CALL_HOME_INT_SET_SUCCESS")
    \o (CASE json.format = "ok" -> <<[code |-> "SPIFFS_FORMATTED", args |-> <<>>]>>
          [] json.format = "failed" -> <<[code |-> "SPIFFS_FORMAT_FAILED", args |-> <<>>]>>
          [] OTHER -> <<>>)

\* RemoteControl::handle_user_config: the calls it makes
user_config_calls(json) ==
    <<[fn |-> "DeviceConfig::commit", ok |-> TRUE]>>
    \o (IF json.format = "no" THEN <<>>
        ELSE <<[fn |-> "SPIFFS.format", ok |-> json.format = "ok"]>>)

\* RemoteControl::handle_reboot: the reboot-pending flag after it
handle_reboot(pending, json) == IF json.reboot THEN TRUE ELSE pending

\* the calls of start's OTA branch
ota_calls(json) ==
    IF json.ota THEN <<[fn |-> "OTA::handle_rc_data", ok |-> TRUE],
                       [fn |-> "CallHome::handle_logs", ok |-> TRUE]>>
    ELSE <<>>

\* A check that takes every received id for a new one.
is_new_data_id_always(new_data_id, cfg) == TRUE

\* the check that decides whether received data is new
is_new_data_id(new_data_id, cfg) == new_data_id # cfg.last_rc_data_id

\* RemoteControl::start
start ==
    /\ pc = "rc_start"
    /\ \E json \in RcResponses :
          LET stored == DeviceConfig.last_rc_data_id
              loc(ret) == [ret |-> ret, new_data_id |-> json.id, stored_id |-> stored]
              failure(code) == /\ rc_loc' = loc("RET_ERROR")
                               /\ events' = <<[code |-> code, args |-> <<>>]>>
                               /\ calls' = <<>>
                               /\ UNCHANGED <<DeviceConfig, reboot_pending, rc_applied>>
          IN  CASE json.got = "request_failed" -> failure("RC_REQUEST_FAILED")
                [] json.got = "parse_failed" -> failure("RC_PARSE_FAILED")
                [] json.got \in {"no_shared", "no_id"} -> failure("RC_INVALID_FORMAT")
                [] OTHER ->
                     IF ~is_new_data_id(json.id, DeviceConfig)
                     THEN /\ rc_loc' = loc("RET_OK")
                          /\ events' = <<>> /\ calls' = <<>>
                          /\ UNCHANGED <<DeviceConfig, reboot_pending, rc_applied>>
                     ELSE /\ Len(rc_applied) < MaxApplied
                          /\ rc_loc' = loc("RET_OK")
                          /\ DeviceConfig' =
                                handle_user_config(
                                    [DeviceConfig EXCEPT !.last_rc_data_id = json.id],
                                    json)
                          /\ reboot_pending' = handle_reboot(reboot_pending, json)
                          /\ rc_applied' = Append(rc_applied, json.id)
                          /\ events' = <<[code |-> "RC_APPLYING_NEW_DATA",
                                          args |-> <<json.id, stored>>]>>
                                       \o user_config_events(json)
                          /\ calls' = <<[fn |-> "DeviceConfig::set_last_rc_data_id",
                                         ok |-> TRUE],
                                        [fn |-> "DeviceConfig::commit", ok |-> TRUE]>>
                                      \o user_config_calls(json) \o ota_calls(json)
    /\ pc' = "rc_start"
    /\ gates' = <<>>
    /\ UNCHANGED <<clock, chip_vars, FLAGS, rtc_vars, sync_loc, self_test, gsm_on,
                   attempts, writes>>

InitRemote ==
    /\ pc = "rc_start"
    /\ FLAGS = [EXTERNAL_RTC_ENABLED |-> TRUE, DEBUG_MODE |-> FALSE]
    /\ clock = [millis |-> BootTick, sys |-> RealBoot, sub |-> 0,
                ext |-> RealBoot - SECONDS_IN_2000]
    /\ ext_valid = TRUE
    /\ ext_running = TRUE
    /\ ext_starts = 0
    /\ last_sync_tick = 0
    /\ last_drift_check_tick = 0
    /\ last_drift_check_tstamp = 0
    /\ timechange_safety_enabled = TRUE
    /\ sync_loc = NoSync
    /\ self_test = [drift |-> 0, ret_ok |-> TRUE, synced |-> FALSE,
                  tasks_ran |-> FALSE, called_home |-> FALSE]
    /\ gsm_on = TRUE
    /\ gates = <<>>
    /\ events = <<>>
    /\ calls = <<>>
    /\ attempts = <<>>
    /\ writes = <<>>
    /\ \E id \in {0} \cup RcIds :
          DeviceConfig = [last_rc_data_id |-> id,
                          wakeup_schedule_reason_int |-> DefaultIntervals]
    /\ reboot_pending = FALSE
    /\ rc_loc = NoStart
    /\ rc_applied = <<>>

NextRemote == start

SpecRemote == InitRemote /\ [][NextRemote]_vars

(***************************************************************************)
(* Properties of the safety gate.                                          *)
(***************************************************************************)
\* t lies strictly inside the plausibility window (t is below 2^31 there)
Plausible(t) == FAIL_CHECK_TIMESTAMP_START < t /\ t < FAIL_CHECK_TIMESTAMP_END

\* A call of sync is running or has just returned.
InSync == sync_loc.caller # "none"

\* C1: with timechange safety and the external RTC both enabled, every value
\* written to the system clock lies in [current - tol, current + tol], where
\* current is the system clock the write replaces and tol the tolerance at
\* that moment; a plausible candidate exactly on either bound passes the gate
\* and is written.
C1_CommitWithinBand ==
    /\ \A i \in 1..Len(writes) :
          (writes[i].safety /\ writes[i].ext_en)
             => /\ writes[i].before - writes[i].tol <= writes[i].val
                /\ writes[i].val <= writes[i].before + writes[i].tol
    /\ \A i \in 1..Len(gates) :
          (/\ gates[i].safety /\ gates[i].ext_en /\ Plausible(gates[i].tstamp)
           /\ \/ gates[i].tstamp = gates[i].cur - gates[i].tol
              \/ gates[i].tstamp = gates[i].cur + gates[i].tol)
             => /\ gates[i].ok
                /\ Len(writes) > 0
                /\ Last(writes).val = gates[i].tstamp

\* sync(true) has just written a modem clock that is exactly the upper bound
C1_Witness ==
    /\ InSync /\ sync_loc.enable_safety
    /\ Len(writes) > 0
    /\ Last(writes).fn = "sync_time_from_gsm_rtc"
    /\ Last(writes).safety /\ Last(writes).ext_en
    /\ Last(writes).val = Last(writes).before + Last(writes).tol

\* C2: every value written to the system clock, with safety enabled or
\* disabled, in sync or in the direct external RTC read at boot, is strictly
\* between FAIL_CHECK_TIMESTAMP_START and FAIL_CHECK_TIMESTAMP_END.
C2_WritesPlausible ==
    \A i \in 1..Len(writes) :
       /\ FAIL_CHECK_TIMESTAMP_START < writes[i].val
       /\ writes[i].val < FAIL_CHECK_TIMESTAMP_END

\* the boot sequence has just written the external RTC's time with safety
\* disabled, further from the system clock than the tolerance
C2_Witness ==
    /\ pc = "setup_enable_safety"
    /\ Len(writes) = 1
    /\ ~writes[1].safety
    /\ writes[1].fn = "sync_time_from_ext_rtc"
    /\ Abs(writes[1].val - writes[1].before) > writes[1].tol

\* C3: tstamp_valid(t) is true exactly when
\* FAIL_CHECK_TIMESTAMP_START < t < FAIL_CHECK_TIMESTAMP_END, and false on
\* either bound and outside them.
C3_ValidIffStrictlyInside ==
    \A i \in 1..Len(gates) :
       /\ gates[i].valid <=> Plausible(gates[i].tstamp)
       /\ gates[i].tstamp \in {FAIL_CHECK_TIMESTAMP_START, FAIL_CHECK_TIMESTAMP_END}
             => ~gates[i].valid

\* a candidate equal to the upper bound has been judged not valid
C3_Witness ==
    \E i \in 1..Len(gates) :
       gates[i].tstamp = FAIL_CHECK_TIMESTAMP_END /\ ~gates[i].valid

\* C4: with timechange safety disabled the gate's answer equals
\* tstamp_valid(t), whatever the system clock, the last sync tick and the
\* external RTC flag are, and no unsafe-timechange event is logged.
C4_DisabledGateIsValidity ==
    \A i \in 1..Len(gates) :
       ~gates[i].safety
          => /\ gates[i].ok = gates[i].valid
             /\ ~gates[i].unsafe
             /\ \A j \in 1..Len(events) :
                   events[j].code # "RTC_DETECTED_UNSAFE_TIMECHANGE"

\* with safety disabled and the external RTC enabled, the gate has accepted a
\* candidate above the band around a plausible system clock
C4_Witness ==
    \E i \in 1..Len(gates) :
       /\ ~gates[i].safety /\ gates[i].ext_en /\ gates[i].ok
       /\ Plausible(gates[i].cur)
       /\ gates[i].tstamp > gates[i].cur + gates[i].tol

\* C5: with the external RTC disabled the gate accepts every plausible
\* candidate even with timechange safety enabled; the band is not applied, so
\* sync(true) writes candidates at any distance from the system clock.
C5_NoBandWithoutExtRtc ==
    /\ \A i \in 1..Len(gates) :
          (gates[i].safety /\ ~gates[i].ext_en)
             => /\ gates[i].ok = Plausible(gates[i].tstamp)
                /\ ~gates[i].unsafe
                /\ gates[i].ok => /\ Len(writes) > 0
                                  /\ Last(writes).val = gates[i].tstamp
    /\ \A j \in 1..Len(events) :
          events[j].code = "RTC_DETECTED_UNSAFE_TIMECHANGE"
             => FLAGS.EXTERNAL_RTC_ENABLED

\* sync(true), external RTC disabled: a candidate further from the system
\* clock than the tolerance has been accepted and written
C5_Witness ==
    /\ InSync /\ sync_loc.enable_safety
    /\ \E i \in 1..Len(gates) :
          /\ gates[i].safety /\ ~gates[i].ext_en /\ gates[i].ok
          /\ Abs(gates[i].tstamp - gates[i].cur) > gates[i].tol
          /\ Len(writes) > 0
          /\ Last(writes).val = gates[i].tstamp

\* The gate got as far as its tolerance: the candidate is valid, safety and
\* the external RTC are enabled.
BandUsed(g) == g.valid /\ g.safety /\ g.ext_en

\* C6: the tolerance the gate uses equals max(10, ceil(0.05 x elapsed
\* seconds)), the 5% term rounded up (201 elapsed seconds give 11); a
\* candidate is accepted exactly when it is within that tolerance.
C6_TolRoundsUp ==
    \A i \in 1..Len(gates) :
       BandUsed(gates[i])
          => LET up == CeilPct5(gates[i].elapsed)
                 tol == IF up < 10 THEN 10 ELSE up
             IN  /\ gates[i].tol = tol
                 /\ gates[i].ok <=> Abs(gates[i].tstamp - gates[i].cur) <= tol

\* C7: when fewer than 200 seconds have elapsed since the last sync tick the
\* gate's tolerance is exactly 10 seconds: a candidate is accepted exactly
\* when it is at most 10 seconds from the system clock.
C7_TolFloor ==
    \A i \in 1..Len(gates) :
       (BandUsed(gates[i]) /\ gates[i].elapsed < 200)
          => /\ gates[i].tol = 10
             /\ gates[i].ok <=> Abs(gates[i].tstamp - gates[i].cur) <= 10

\* 199 seconds after the last sync the gate has accepted a candidate 10
\* seconds ahead of the system clock
C7_Witness ==
    \E i \in 1..Len(gates) :
       /\ BandUsed(gates[i]) /\ gates[i].elapsed = 199
       /\ gates[i].tstamp = gates[i].cur + 10 /\ gates[i].ok

(***************************************************************************)
(* Properties of RTC::sync.                                                *)
(***************************************************************************)
Att(fn, ok) == [fn |-> fn, ok |-> ok]

\* The complete runs of the sources with the network reachable, in the
\* fixed order: HTTP, NTP trigger then modem clock, external RTC (if
\* enabled), modem clock alone; each is tried only after every earlier one
\* failed and nothing is tried after a success.
LegalRuns(ext_en) ==
    LET H(ok) == Att("sync_time_from_http", ok)
        N(ok) == Att("sync_gsm_rtc_from_ntp", ok)
        G(ok) == Att("sync_time_from_gsm_rtc", ok)
        E(ok) == Att("sync_time_from_ext_rtc", ok)
        ntp_failed == {<<H(FALSE), N(FALSE)>>, <<H(FALSE), N(TRUE), G(FALSE)>>}
        rest == IF ext_en
                THEN {<<E(TRUE)>>} \cup {<<E(FALSE), G(ok)>> : ok \in BOOLEAN}
                ELSE {<<G(ok)>> : ok \in BOOLEAN}
    IN  {<<H(TRUE)>>, <<H(FALSE), N(TRUE), G(TRUE)>>}
           \cup {a \o b : a \in ntp_failed, b \in rest}

IsPrefix(s, t) == Len(s) <= Len(t) /\ SubSeq(t, 1, Len(s)) = s

NetworkCalls == {"http_get", "update_ntp_time", "get_time"}

SyncBodyPcs ==
    {"sync_http", "sync_ntp", "sync_ntp_gsm", "sync_ext", "sync_ext_only",
     "sync_gsm", "sync_finish"}

\* C10: timechange safety is enabled whenever control is outside a forced
\* sync: it is disabled only inside sync(false) and between the two toggles
\* of the boot sequence around the external RTC read; every call of sync
\* returns with it enabled.
C10_SafetyRestored ==
    /\ ~timechange_safety_enabled
          => \/ pc \in {"setup_ext_sync", "setup_enable_safety"}
             \/ /\ InSync /\ ~sync_loc.enable_safety /\ ~sync_loc.returned
                /\ pc \in SyncBodyPcs
    /\ (InSync /\ sync_loc.returned) => timechange_safety_enabled

\* sync(false) has failed and returned, and safety is enabled
C10_Witness ==
    /\ InSync /\ sync_loc.returned
    /\ ~sync_loc.enable_safety /\ ~sync_loc.ret_ok
    /\ timechange_safety_enabled

\* C11: every call of sync leaves last_sync_tick at the tick counter read at
\* the end of the run, on success and on failure, whichever sources it tried.
C11_LastSyncTickAlways ==
    (InSync /\ sync_loc.returned) => last_sync_tick = clock.millis

\* a run that tried sources for a while and failed has returned
C11_Witness ==
    /\ InSync /\ sync_loc.returned /\ ~sync_loc.ret_ok
    /\ Len(attempts) >= 1
    /\ clock.millis > sync_loc.entry.millis
    /\ last_sync_tick = clock.millis

\* A source (not the NTP trigger, which sets the modem's clock only) has
\* committed a time in the run.
SourceSucceeded ==
    \E i \in 1..Len(attempts) :
       attempts[i].ok /\ attempts[i].fn # "sync_gsm_rtc_from_ntp"

\* C12: sync returns failure exactly when no source succeeded, and then the
\* system clock has not been set (it has only advanced with the tick
\* counter), the external RTC has not been written and the drift checkpoint
\* is the one the run found.
C12_FailureChangesNothing ==
    (InSync /\ sync_loc.returned)
       => /\ sync_loc.ret_ok <=> SourceSucceeded
          /\ ~sync_loc.ret_ok
                => /\ writes = <<>>
                   /\ (clock.sys - sync_loc.entry.sys) * 1000
                         + (clock.sub - sync_loc.entry.sub)
                      = clock.millis - sync_loc.entry.millis
                   /\ clock.ext - (clock.millis \div 1000)
                      = sync_loc.entry.ext - (sync_loc.entry.millis \div 1000)
                   /\ last_drift_check_tick = sync_loc.entry.ck_tick
                   /\ last_drift_check_tstamp = sync_loc.entry.ck_tstamp

\* with the external RTC enabled and a checkpoint taken earlier, all four
\* sources were tried over some seconds and failed
C12_Witness ==
    /\ InSync /\ sync_loc.returned /\ ~sync_loc.ret_ok
    /\ FLAGS.EXTERNAL_RTC_ENABLED
    /\ Len(attempts) = 4
    /\ clock.millis > sync_loc.entry.millis + 1000
    /\ sync_loc.entry.ck_tstamp # 0

\* The number a string of decimal digits denotes.
RECURSIVE DecValue(_)
DecValue(body) ==
    IF body = <<>> THEN 0
    ELSE DecValue(SubSeq(body, 1, Len(body) - 1)) * 10 + DigitVal(Last(body))

AllDigits(body) == \A i \in 1..Len(body) : IsDigit(body[i])

\* The step just taken was the HTTP source, whose GET returned ten digits.
HttpAnswered ==
    /\ Len(attempts) = 1 /\ attempts[1].fn = "sync_time_from_http"
    /\ Len(calls) = 1 /\ calls[1].fn = "http_get" /\ calls[1].ok
    /\ Len(calls[1].body) = 10 /\ AllDigits(calls[1].body)

\* The step just taken was the end of sync.
JustReturned ==
    /\ InSync /\ sync_loc.returned
    /\ Len(events) = 1 /\ events[1].code = "RTC_SYNC"

ExtRtcWriteCalled == \E i \in 1..Len(calls) : calls[i].fn = "ext_rtc_write"

\* C14: sync writes the external RTC iff the run succeeded, the committed time
\* did not come from the external RTC and the external RTC is enabled; it
\* writes the system clock as it reads after the commit; a write that fails
\* leaves the chip as it was and sync still returns success.
C14_ExtRtcUpdate ==
    JustReturned
       => /\ ExtRtcWriteCalled
                <=> /\ sync_loc.ret_ok
                    /\ FLAGS.EXTERNAL_RTC_ENABLED
                    /\ Last(attempts).fn # "sync_time_from_ext_rtc"
          /\ ExtRtcWriteCalled
                => /\ Len(calls) = 1
                   /\ clock.sys = Last(writes).val
                   /\ IF calls[1].ok
                      THEN get_external_rtc_timestamp(clock) = clock.sys
                      ELSE /\ sync_loc.ret_ok
                           /\ clock.ext - (clock.millis \div 1000)
                              = sync_loc.entry.ext - (sync_loc.entry.millis \div 1000)

\* a run committed the modem's time, the write of the external RTC failed
\* and sync returned success
C14_Witness ==
    /\ JustReturned /\ sync_loc.ret_ok
    /\ Last(attempts).fn = "sync_time_from_gsm_rtc"
    /\ Len(calls) = 1 /\ calls[1].fn = "ext_rtc_write" /\ ~calls[1].ok
    /\ get_external_rtc_timestamp(clock) # clock.sys

\* The source that committed the time of a successful run, in the names the
\* log is to carry.
CommittingSource ==
    LET n == Len(attempts)
    IN  IF attempts[n].fn = "sync_time_from_http" THEN "TIME_SOURCE_HTTP"
        ELSE IF attempts[n].fn = "sync_time_from_ext_rtc"
        THEN "TIME_SOURCE_EXTERNAL_RTC"
        ELSE IF n > 1 /\ attempts[n - 1] = Att("sync_gsm_rtc_from_ntp", TRUE)
        THEN "TIME_SOURCE_NTP"
        ELSE "TIME_SOURCE_GSM"

\* C15: the source recorded for a run names the source that committed the
\* time (HTTP, NTP, external RTC or modem clock) when the run succeeded and is
\* the none value (TIME_SOURCE_OTHER) only when it failed.
C15_SourceIdentifiesCommit ==
    (InSync /\ sync_loc.returned)
       => IF sync_loc.ret_ok
          THEN sync_loc.time_source = CommittingSource
          ELSE sync_loc.time_source = "TIME_SOURCE_OTHER"

\* C16: each call of sync emits exactly one RTC_SYNC event, in its last step
\* (after every source attempt and the external RTC write), on success and on
\* failure, carrying the system clock read on entry and the recorded source.
C16_OneSyncEvent ==
    /\ InSync => sync_loc.sync_events = IF sync_loc.returned THEN 1 ELSE 0
    /\ \A i \in 1..Len(events) :
          events[i].code = "RTC_SYNC"
             => /\ JustReturned
                /\ events[i].args = <<sync_loc.entry.sys, sync_loc.time_source>>
    /\ (InSync /\ pc \in SyncBodyPcs)
          => \A i \in 1..Len(events) : events[i].code # "RTC_SYNC"

\* a run moved the system clock, wrote the external RTC and then logged the
\* clock value it had found on entry
C16_Witness ==
    /\ JustReturned /\ sync_loc.ret_ok
    /\ ExtRtcWriteCalled
    /\ events[1].args[1] # clock.sys
    /\ events[1].args[1] = sync_loc.entry.sys

(***************************************************************************)
(* Properties of RTC::detect_drift.                                        *)
(***************************************************************************)
\* detect_drift has returned into self_test.drift
DriftDone == pc = "drift_done"

\* seconds of the tick counter since the checkpoint
ElapsedTicksSec == (clock.millis - last_drift_check_tick) \div 1000

\* seconds between the external RTC's reading and the checkpoint
ElapsedRtcSec == Abs(get_external_rtc_timestamp(clock) - last_drift_check_tstamp)

\* max(10, ceil(0.05 x elapsed tick seconds))
DriftTol ==
    LET up == (ElapsedTicksSec + 19) \div 20
    IN  IF up < 10 THEN 10 ELSE up

InsideDriftBand ==
    /\ ElapsedTicksSec - DriftTol <= ElapsedRtcSec
    /\ ElapsedRtcSec <= ElapsedTicksSec + DriftTol

\* C17: detect_drift returns 0 whenever the external RTC's elapsed seconds
\* lie inside [ticks - tol, ticks + tol], also when the elapsed tick seconds
\* are fewer than tol (5 s of ticks and 7 s of RTC time give 0).
C17_NoDriftInsideBand ==
    (DriftDone /\ InsideDriftBand) => self_test.drift = 0

\* C18: outside the band detect_drift returns the signed difference of the
\* external RTC's elapsed seconds and the elapsed tick seconds, positive when
\* the RTC advanced more than the ticks and negative when it advanced less.
C18_SignedDrift ==
    (/\ DriftDone /\ FLAGS.EXTERNAL_RTC_ENABLED
     /\ last_drift_check_tick # 0 /\ last_drift_check_tstamp # 0
     /\ ~InsideDriftBand)
       => /\ self_test.drift = ElapsedRtcSec - ElapsedTicksSec
          /\ self_test.drift > 0 <=> ElapsedRtcSec > ElapsedTicksSec
          /\ self_test.drift < 0 <=> ElapsedRtcSec < ElapsedTicksSec

\* after 120 s of ticks the external RTC has advanced 105 s: -15 is returned
C18_Witness ==
    /\ DriftDone /\ FLAGS.EXTERNAL_RTC_ENABLED
    /\ last_drift_check_tick # 0 /\ last_drift_check_tstamp # 0
    /\ ElapsedTicksSec = 120 /\ ElapsedRtcSec = 105
    /\ self_test.drift = -15

\* C19: a checkpoint taken at tick 0 with a nonzero timestamp is a baseline:
\* with checkpoint (0, 1000), tick 120000 and the external RTC reading 1135
\* detect_drift returns 15; the check is skipped only when both fields of the
\* checkpoint are zero.
C19_TickZeroCheckpoint ==
    /\ (/\ DriftDone /\ FLAGS.EXTERNAL_RTC_ENABLED
        /\ last_drift_check_tick = 0 /\ last_drift_check_tstamp = 1000
        /\ clock.millis = 120000
        /\ get_external_rtc_timestamp(clock) = 1135)
          => self_test.drift = 15
    /\ (/\ DriftDone /\ FLAGS.EXTERNAL_RTC_ENABLED
        /\ ~(last_drift_check_tick = 0 /\ last_drift_check_tstamp = 0)
        /\ ~InsideDriftBand)
          => self_test.drift = ElapsedRtcSec - ElapsedTicksSec

\* C20: detect_drift returns 0 when the external RTC is disabled and when no
\* checkpoint was ever taken (tick and timestamp both zero), whatever the
\* external RTC and the tick counter read.
C20_NoDriftWithoutBaseline ==
    (/\ DriftDone
     /\ \/ ~FLAGS.EXTERNAL_RTC_ENABLED
        \/ last_drift_check_tick = 0 /\ last_drift_check_tstamp = 0)
       => self_test.drift = 0

\* no checkpoint, external RTC enabled and reading 135 s after 120 s of
\* ticks: 0 has been returned
C20_Witness ==
    /\ DriftDone /\ FLAGS.EXTERNAL_RTC_ENABLED
    /\ last_drift_check_tick = 0 /\ last_drift_check_tstamp = 0
    /\ ElapsedTicksSec = 120 /\ ElapsedRtcSec = 135
    /\ self_test.drift = 0

(***************************************************************************)
(* Properties of the HTTP source.                                          *)
(***************************************************************************)
\* The HTTP source has been called and has returned.
HttpDone ==
    /\ pc = "http_done"
    /\ Len(attempts) = 1 /\ attempts[1].fn = "sync_time_from_http"

TenDigits(body) == Len(body) = 10 /\ AllDigits(body)

\* The clock as it was when sync was entered.
EntryClock ==
    [millis |-> sync_loc.entry.millis, sys |-> sync_loc.entry.sys,
     sub |-> sync_loc.entry.sub, ext |-> sync_loc.entry.ext]

\* C21: the HTTP source makes one request; unless the body received is
\* exactly 10 decimal digits it fails, writes nothing to the system clock
\* (which only advances by the time the request took) and so commits a time
\* only for a 10-digit body; the body "1700000000" of a request that took no
\* time reaches the gate as 1700000000.
C21_HttpBodyTenDigits ==
    HttpDone =>
       /\ Len(calls) = 1 /\ calls[1].fn = "http_get"
       /\ ~(calls[1].ok /\ TenDigits(calls[1].body))
             => /\ ~attempts[1].ok
                /\ writes = <<>>
                /\ clock = Pass(EntryClock, calls[1].lat)
       /\ attempts[1].ok => Len(writes) = 1
       /\ (/\ calls[1].ok
           /\ calls[1].body = <<"1", "7", "0", "0", "0", "0", "0", "0", "0", "0">>
           /\ calls[1].lat = 0)
             => Len(gates) = 1 /\ gates[1].tstamp = 1700000000

\* A plausible time cut short by a letter, ten characters in all, was parsed
\* and the number read was turned down.
C21_Witness ==
    /\ HttpDone
    /\ calls[1].ok
    /\ Len(calls[1].body) = 10 /\ calls[1].body[10] = "x"
    /\ Len(gates) = 1 /\ ~gates[1].ok
    /\ ~attempts[1].ok
    /\ sync_loc.entry.sys = RealBoot

\* The whole seconds nearest to ms milliseconds, the larger on a tie.
NearestSecHalfUp(ms) ==
    CHOOSE n \in 0..((ms \div 1000) + 1) : 1000 * n - 500 <= ms /\ ms < 1000 * n + 500

\* The request of start tick 1000 ms, end tick 3500 ms, answered 1700000000.
LatencyExample ==
    /\ HttpDone
    /\ calls[1].ok
    /\ calls[1].body = <<"1", "7", "0", "0", "0", "0", "0", "0", "0", "0">>
    /\ sync_loc.entry.millis = 1000 /\ clock.millis = 3500

\* The value the gate saw, and the value written if one was, is the parsed
\* one less the request's duration rounded by r.
CompensatedBy(r(_)) ==
    (HttpDone /\ calls[1].ok /\ TenDigits(calls[1].body))
       => /\ Len(gates) = 1
          /\ gates[1].tstamp =
                DecValue(calls[1].body) - r(clock.millis - sync_loc.entry.millis)
          /\ attempts[1].ok
                => /\ Len(writes) = 1
                   /\ writes[1].val = gates[1].tstamp
                   /\ get_timestamp(clock) = gates[1].tstamp

\* The claim as stated: the request's duration is rounded to the nearest
\* second and the example yields 1699999998.
C22_LatencyAsStated ==
    /\ \A n \in 0..3 :
          (HttpDone /\ calls[1].ok /\ TenDigits(calls[1].body)
           /\ Abs(1000 * n - (clock.millis - sync_loc.entry.millis)) < 500)
             => Len(gates) = 1 /\ gates[1].tstamp = DecValue(calls[1].body) - n
    /\ LatencyExample => Len(gates) = 1 /\ gates[1].tstamp = 1699999998

\* C22: the HTTP source subtracts from the parsed timestamp the tick
\* duration of the request rounded to the nearest second, a half rounding
\* up, and gates and commits the compensated value; for start tick 1000 ms,
\* end tick 3500 ms and parsed value 1700000000 that value is 1699999997.
C22_LatencyCompensation ==
    /\ CompensatedBy(NearestSecHalfUp)
    /\ LatencyExample => Len(gates) = 1 /\ gates[1].tstamp = 1699999997

\* A request of 2.5 s ended in a commit of the body's time less 3 s.
C22_Witness ==
    /\ HttpDone
    /\ calls[1].ok /\ TenDigits(calls[1].body)
    /\ clock.millis - sync_loc.entry.millis = 2500
    /\ attempts[1].ok
    /\ get_timestamp(clock) = DecValue(calls[1].body) - 3
    /\ sync_loc.entry.sys = RealBoot

(***************************************************************************)
(* Properties of the modem sources and of the external RTC.                *)
(***************************************************************************)
\* The modem calls that are retried.
RetryCalls == {"update_ntp_time", "get_time"}

\* C23: a run of the NTP trigger or of the modem clock read makes at most
\* GSM_TRIES attempts, stops at the first that succeeds, waits between
\* consecutive attempts and not after the last, and makes exactly GSM_TRIES
\* attempts when all of them fail.
C23_RetryCount ==
    (calls # <<>> /\ calls[1].fn \in RetryCalls)
       => LET tr == {i \in 1..Len(calls) : calls[i].fn \in RetryCalls}
          IN  /\ Cardinality(tr) <= GSM_TRIES
              /\ \A i \in tr : calls[i].ok => i = Len(calls)
              /\ \A i \in 1..(Len(calls) - 1) :
                    /\ calls[i].fn \in RetryCalls => calls[i + 1].fn = "delay"
                    /\ calls[i].fn = "delay" => calls[i + 1].fn \in RetryCalls
              /\ calls[Len(calls)].fn # "delay"
              /\ (\A i \in tr : ~calls[i].ok) => Cardinality(tr) = GSM_TRIES

\* C24: with the chip's oscillator-valid flag unset, a read of the external
\* RTC as a time source fails and writes nothing to the system clock, with
\* timechange safety enabled or disabled.
C24_ExtReadNeedsValid ==
    ~ext_valid
       => /\ \A i \in 1..Len(attempts) :
                attempts[i].fn = "sync_time_from_ext_rtc" => ~attempts[i].ok
          /\ \A i \in 1..Len(writes) : writes[i].fn # "sync_time_from_ext_rtc"

\* C25: with the external RTC enabled the chip is running once init has
\* returned, whatever it reported before; it is started at most once, and
\* only by init.
C25_InitStartsChip ==
    /\ []((FLAGS.EXTERNAL_RTC_ENABLED /\ pc # "setup_init") => ext_running)
    /\ [](ext_starts <= 1)
    /\ [][ext_starts' # ext_starts => pc = "setup_init"]_vars

(***************************************************************************)
(* Properties of the wake-up self-test.                                    *)
(***************************************************************************)
\* wakeup_self_test has just decided whether to call sync.
SelfTestDecided ==
    \/ pc = "sync_begin" /\ sync_loc.caller = "wakeup_self_test"
    \/ pc = "loop_tasks" /\ ~self_test.synced

\* C26: the self-test goes on to sync exactly when the system clock is
\* outside the plausibility window or detect_drift returned a nonzero drift,
\* positive or negative; otherwise it calls neither sync nor the modem.
C26_SelfTestSyncs ==
    SelfTestDecided
       => /\ self_test.synced
                <=> (~tstamp_valid(get_timestamp(clock)) \/ self_test.drift # 0)
          /\ ~self_test.synced => (calls = <<>> /\ ~gsm_on /\ ~InSync)

\* C27: in a loop iteration whose self-test failed no regular wake-up task
\* runs: no measurement task and no call home.
C27_FailedSelfTestSkipsTasks ==
    (pc = "loop_sleep" /\ ~self_test.ret_ok)
       => ~self_test.tasks_ran /\ ~self_test.called_home

(***************************************************************************)
(* Properties of the bookkeeping across sync runs.                         *)
(***************************************************************************)
\* Gate i of the step just taken compared a plausible candidate with the band.
BandGate(i) == gates[i].safety /\ gates[i].ext_en /\ gates[i].valid

\* A sync run entered at a wake-up that follows a failed run: the checkpoint
\* is still the one of the boot sync.
RetryRun ==
    /\ InSync /\ ~sync_loc.returned
    /\ sync_loc.entry.millis >= RetryWakeTick + RetrySleepMs
    /\ last_drift_check_tick = BootTick

\* The claim as stated: the elapsed time the gate scales its tolerance by is
\* the time since the last successful sync.
C28_TolSinceLastSuccess ==
    \A i \in 1..Len(gates) :
       (InSync /\ BandGate(i))
          => gates[i].elapsed = UDiv1000(clock.millis - last_drift_check_tick)

\* C28: the safety-gate tolerance is scaled by the time elapsed since the end
\* of the last sync run, successful or failed: in the first run after a
\* successful sync that is the time since that sync; in a run that follows a
\* failed run by a sleep of RetrySleepMs it is the time since the failed run
\* returned, and the tolerance is back at its floor of 10 s.
C28_TolSinceLastRun ==
    \A i \in 1..Len(gates) :
       (InSync /\ BandGate(i))
          => /\ sync_loc.entry.millis = RetryWakeTick
                   => gates[i].elapsed = UDiv1000(clock.millis - BootTick)
             /\ RetryRun
                   => /\ gates[i].elapsed =
                            UDiv1000(clock.millis
                                        - (sync_loc.entry.millis - RetrySleepMs))
                      /\ gates[i].tol = 10

\* In a run that follows a failed run, a candidate 11 s ahead of the clock is
\* turned down with tolerance 10, more than 220 s after the last successful
\* sync.
C28_Witness ==
    /\ RetryRun
    /\ Len(gates) = 1 /\ BandGate(1)
    /\ gates[1].elapsed < 10 /\ gates[1].tol = 10
    /\ gates[1].tstamp = gates[1].cur + 11 /\ gates[1].unsafe
    /\ UDiv1000(clock.millis - last_drift_check_tick) >= 220

\* The drift checkpoint.
Checkpoint == <<last_drift_check_tick, last_drift_check_tstamp>>

\* The step about to be taken is init, or the end of a sync run that succeeded.
CheckpointStep == pc = "setup_init" \/ (pc = "sync_finish" /\ sync_loc.ret_ok)

\* C29: init and the end of every successful sync run set the drift
\* checkpoint to the tick counter and the system clock as they are then,
\* after the commit; no other step (a failed sync, a source called on its
\* own, detect_drift in the self-test) changes it.
C29_CheckpointRetaken ==
    [][/\ CheckpointStep => Checkpoint' = <<clock'.millis, get_timestamp(clock')>>
       /\ ~CheckpointStep => UNCHANGED Checkpoint]_vars

\* A sync run that took time and changed the clock has succeeded in a
\* wake-up, and the checkpoint is the tick and the clock of its end.
C29_Witness ==
    /\ pc = "self_test_end"
    /\ sync_loc.returned /\ sync_loc.ret_ok
    /\ writes # <<>>
    /\ clock.millis > sync_loc.entry.millis
    /\ \E i \in 1..Len(writes) : writes[i].val # writes[i].before
    /\ Checkpoint = <<clock.millis, get_timestamp(clock)>>
    /\ sync_loc.entry.ck_tick # 0
    /\ last_drift_check_tick # sync_loc.entry.ck_tick

\* The unsafe-timechange events of the step just taken.
UnsafeEvents ==
    {j \in 1..Len(events) : events[j].code = "RTC_DETECTED_UNSAFE_TIMECHANGE"}

\* C30: a step in which the tolerance band turned down a plausible candidate
\* logs one unsafe-timechange event, which carries the rejected value and the
\* current clock value it was compared with; a step in which a candidate was
\* accepted, or turned down as implausible, logs none.
C30_UnsafeEventBothValues ==
    IF Len(gates) = 1 /\ gates[1].valid /\ gates[1].unsafe
    THEN /\ ~gates[1].ok
         /\ Cardinality(UnsafeEvents) = 1
         /\ \A j \in UnsafeEvents :
               /\ Len(events[j].args) = 2
               /\ events[j].args = <<gates[1].tstamp, gates[1].cur>>
    ELSE UnsafeEvents = {}

(***************************************************************************)
(* Properties of a whole sync run.                                         *)
(***************************************************************************)
\* The attempts of the current operation on source fn.
AttemptsOf(fn) == {i \in 1..Len(attempts) : attempts[i].fn = fn}

\* The NTP trigger succeeded in the current run.
NtpTriggered ==
    \E i \in AttemptsOf("sync_gsm_rtc_from_ntp") : attempts[i].ok

\* C31: in a sync run whose NTP trigger succeeded the modem clock is read
\* once, not again after that read or its gate check failed, and the run
\* does not record the modem clock as the source of its time.
C31_ModemAloneOnlyWithoutNtp ==
    (InSync /\ NtpTriggered)
       => /\ Cardinality(AttemptsOf("sync_time_from_gsm_rtc")) <= 1
          /\ sync_loc.time_source # "TIME_SOURCE_GSM"

\* The calls of fn in the step just taken.
CallsOf(fn) == Cardinality({i \in 1..Len(calls) : calls[i].fn = fn})

\* One of the two retry loops is running or has ended.
InRetryLoop == pc \in {"retry_ntp", "retry_gsm", "retry_done"}

\* A call of sync is running.
SyncRunning == InSync /\ ~sync_loc.returned /\ ~InRetryLoop

\* The collaborator calls of a sync run stay within their bounds: each step
\* makes at most one connect attempt, one GET, GSM_TRIES NTP triggers,
\* GSM_TRIES modem clock reads, one external RTC read and one external RTC
\* write, and a run has at most one HTTP, one NTP trigger, two modem clock,
\* one external RTC step and one end.
SyncCallsBounded ==
    (InSync /\ ~InRetryLoop)
       => /\ CallsOf("connect_persist") <= 1
          /\ CallsOf("http_get") <= 1
          /\ CallsOf("update_ntp_time") <= GSM_TRIES
          /\ CallsOf("get_time") <= GSM_TRIES
          /\ CallsOf("ext_rtc_read") <= 1
          /\ CallsOf("ext_rtc_write") <= 1
          /\ Cardinality(AttemptsOf("sync_time_from_http")) <= 1
          /\ Cardinality(AttemptsOf("sync_gsm_rtc_from_ntp")) <= 1
          /\ Cardinality(AttemptsOf("sync_time_from_gsm_rtc")) <= 2
          /\ Cardinality(AttemptsOf("sync_time_from_ext_rtc")) <= 1
          /\ sync_loc.sync_events <= 1
          /\ pc = "sync_begin" => attempts = <<>>

\* A retry loop makes no more calls than the build's GSM_TRIES.
RetryCallsBounded ==
    InRetryLoop
       => CallsOf("update_ntp_time") + CallsOf("get_time") <= sync_loc.gsm_tries

\* C32: every call of sync returns, having stayed within the bounds on its
\* collaborator calls, and the retry loops end after at most GSM_TRIES calls
\* for every GSM_TRIES from 0 up.
C32_SyncTerminates ==
    /\ [](SyncCallsBounded /\ RetryCallsBounded)
    /\ SyncRunning ~> (InSync /\ sync_loc.returned)
    /\ (pc \in {"retry_ntp", "retry_gsm"}) ~> (pc = "retry_done")

\* A run that tried every source, reading the modem clock twice, has returned.
C32_Witness ==
    /\ InSync /\ sync_loc.returned /\ ~InRetryLoop
    /\ Cardinality(AttemptsOf("sync_time_from_gsm_rtc")) = 2
    /\ Cardinality(AttemptsOf("sync_time_from_ext_rtc")) = 1
    /\ Cardinality(AttemptsOf("sync_gsm_rtc_from_ntp")) = 1

CommittedAttempts ==
    {i \in 1..Len(attempts) :
        attempts[i].ok /\ attempts[i].fn # "sync_gsm_rtc_from_ntp"}

\* C34: a sync run writes the system clock at most once; every write is the
\* work of a source that returned success, so a source that failed wrote
\* nothing; a run that returns success has written once and a run that
\* returns failure not at all.
C34_OneWritePerRun ==
    InSync
       => /\ Len(writes) <= 1
          /\ Len(writes) = Cardinality(CommittedAttempts)
          /\ \A i \in 1..Len(writes) : writes[i].fn = Last(attempts).fn
          /\ sync_loc.returned => (sync_loc.ret_ok <=> Len(writes) = 1)

\* A run in which three sources failed before the modem clock was committed
\* has returned with one write.
C34_Witness ==
    /\ InSync /\ sync_loc.returned /\ sync_loc.ret_ok
    /\ Len(attempts) >= 4
    /\ Len(writes) = 1 /\ writes[1].fn = "sync_time_from_gsm_rtc"
    /\ writes[1].val # writes[1].before

\* A sync run has just returned success with the external RTC enabled.
SyncedWithExtRtc ==
    JustReturned /\ sync_loc.ret_ok /\ FLAGS.EXTERNAL_RTC_ENABLED

\* The external RTC holds the time the run committed: the time came from it,
\* or the write that followed the commit succeeded.
ExtRtcHoldsCommit ==
    \/ Last(attempts).fn = "sync_time_from_ext_rtc"
    \/ \E i \in 1..Len(calls) : calls[i].fn = "ext_rtc_write" /\ calls[i].ok

GoodNetwork ==
    \A i \in 1..Len(calls) :
       /\ calls[i].fn \in {"gsm_on", "is_gprs_connected"} => calls[i].ok
       /\ calls[i].fn = "http_get"
             => /\ calls[i].ok /\ calls[i].lat = 0
                /\ calls[i].body = Digits10(RealTime(clock.millis))

\* The system clock is outside the plausibility window or further from the
\* true time than the tolerance of the gate.
ClockWrong ==
    \/ ~tstamp_valid(get_timestamp(clock))
    \/ Abs(get_timestamp(clock) - RealTime(clock.millis)) > timechange_tol(clock)

ClockTrue == get_timestamp(clock) = RealTime(clock.millis)

CheckpointEvaluated ==
    /\ pc = "self_test"
    /\ FLAGS.EXTERNAL_RTC_ENABLED
    /\ last_drift_check_tick # 0 /\ last_drift_check_tstamp # 0

\* C37: a checkpoint that detect_drift evaluates was taken after the last
\* write of the system clock: the clock has run on from the checkpoint's
\* timestamp with the ticks, to the second, and was not set in between.
C37_CheckpointAfterLastWrite ==
    CheckpointEvaluated
       => Abs((get_timestamp(clock) - last_drift_check_tstamp)
               - UDiv1000(clock.millis - last_drift_check_tick)) <= 1

\* The self-test has returned in this loop iteration, having called sync.
SelfTestSynced == pc \in {"loop_tasks", "loop_sleep"} /\ self_test.synced

ReceivedStoredId ==
    rc_loc.new_data_id # Absent /\ rc_loc.new_data_id = rc_loc.stored_id

\* A start that applies data has stored the received id first.
StoresIdBeforeApplying ==
    calls # <<>> /\ pc = "rc_start"
       => /\ calls[1].fn = "DeviceConfig::set_last_rc_data_id"
          /\ DeviceConfig.last_rc_data_id = rc_loc.new_data_id

\* A start that receives the stored id returns OK and changes no interval,
\* formats nothing, starts no OTA and leaves the reboot-pending flag.
StoredIdIsIgnored ==
    [][(pc = "rc_start" /\ rc_loc'.new_data_id # Absent
           /\ rc_loc'.new_data_id = DeviceConfig.last_rc_data_id)
          => /\ rc_loc'.ret = "RET_OK"
             /\ UNCHANGED <<DeviceConfig, reboot_pending, rc_applied>>
             /\ calls' = <<>>]_vars

\* No data id was applied twice.
AppliedOncePerId ==
    \A i, j \in DOMAIN rc_applied : rc_applied[i] = rc_applied[j] => i = j

\* No data id was applied twice in succession.
AppliedOncePerIdInSuccession ==
    \A i \in DOMAIN rc_applied :
        i > 1 => rc_applied[i] # rc_applied[i - 1]

\* The claim as stated: the data of an id is applied at most once, whatever
\* was received in between.
C39_AppliedAtMostOncePerId ==
    [](AppliedOncePerId /\ StoresIdBeforeApplying) /\ StoredIdIsIgnored

\* C39: the data of an id is applied at most once while that id is the one
\* received in succession: start stores the received id before it applies the
\* data, and a start that receives the stored id returns OK and changes no
\* wake-up interval, formats no storage, starts no OTA and does not set the
\* reboot-pending flag.
C39_AppliedOncePerStoredId ==
    [](AppliedOncePerIdInSuccession /\ StoresIdBeforeApplying) /\ StoredIdIsIgnored

\* Data of two ids was applied, and the last start received the stored id
\* with every action requested: it returned OK and did nothing.
C39_Witness ==
    /\ Len(rc_applied) >= 2
    /\ ReceivedStoredId
    /\ Last(rc_applied) = rc_loc.new_data_id
    /\ rc_loc.ret = "RET_OK"
    /\ calls = <<>> /\ events = <<>>
    /\ ~reboot_pending
    /\ DeviceConfig.wakeup_schedule_reason_int = DefaultIntervals

====
